---- MODULE Spec2Model ----
(***************************************************************************)
(* Model of the dark-mode conversion engine of pdf-dark-mode-converter     *)
(* (backend/pdf_processor_pikepdf.py): colour math, tone remapping and the *)
(* six-pass content-stream rewriter.                                       *)
(*                                                                         *)
(* Numbers are exact rationals <<n, d>> in lowest terms with d > 0.  The   *)
(* decimal literals of the source (0.299, 0.93, ...) are taken at their    *)
(* decimal value; binary floating-point rounding is not modelled.          *)
(***************************************************************************)
EXTENDS Integers, Sequences, FiniteSets, TLC

VARIABLES theme, bg_color, space, val, orig, hist, content, original, pass,
          applied, pdf, page_no, pc, all_content, events, warnings, result,
          files, dirs, selected_folder, quick_scan_path, dry_run_var,
          is_converting, total_files, processed_files, converted_count,
          skipped_count, convert_btn, browse_btn, cancel_btn, threads, pdf_count

vars == <<theme, bg_color, space, val, orig, hist, content, original, pass,
          applied, pdf, page_no, pc, all_content, events, warnings, result,
          files, dirs, selected_folder, quick_scan_path, dry_run_var,
          is_converting, total_files, processed_files, converted_count,
          skipped_count, convert_btn, browse_btn, cancel_btn, threads, pdf_count>>

colorVars == <<space, val, orig, hist>>
streamVars == <<content, original, pass>>
docVars == <<pdf, page_no, pc, all_content, events, warnings, result>>
diskVars == <<files, dirs>>
counterVars == <<total_files, processed_files, converted_count, skipped_count>>
buttonVars == <<convert_btn, browse_btn, cancel_btn>>
guiVars == <<files, dirs, selected_folder, quick_scan_path, dry_run_var,
             is_converting, total_files, processed_files, converted_count,
             skipped_count, convert_btn, browse_btn, cancel_btn, threads, pdf_count>>

\* no document is being processed
NoDocument ==
    /\ pdf = [valid |-> FALSE, pages |-> <<>>]
    /\ page_no = 0
    /\ pc = "idle"
    /\ all_content = <<>>
    /\ events = <<>>
    /\ warnings = <<>>
    /\ result = "none"

\* the batch window is not open
NoBatch ==
    /\ files = <<>>
    /\ dirs = {}
    /\ selected_folder = "None"
    /\ quick_scan_path = ""
    /\ dry_run_var = FALSE
    /\ is_converting = FALSE
    /\ total_files = 0
    /\ processed_files = 0
    /\ converted_count = 0
    /\ skipped_count = 0
    /\ convert_btn = "disabled"
    /\ browse_btn = "disabled"
    /\ cancel_btn = "disabled"
    /\ threads = <<>>
    /\ pdf_count = <<>>

----------------------------------------------------------------------------
(* Bounds of the explored input space *)

GridDen == 4
HueDen == 12
MaxSteps == 2
MaxItems == 2
MaxPages == 2

----------------------------------------------------------------------------
(* Exact rational arithmetic standing for the float arithmetic of the code. *)
(* An operation takes the value of each operand once (CHOOSE over the       *)
(* singleton set of results), as the code does.                             *)

Abs(x) == IF x < 0 THEN -x ELSE x

RECURSIVE GCD(_, _)
GCD(a, b) == IF b = 0 THEN a ELSE CHOOSE g \in {GCD(b, r) : r \in {a % b}} : TRUE

Rat(n, d) ==
    CHOOSE q \in {LET g == GCD(Abs(a), Abs(b))
                  IN  <<(IF b < 0 THEN -a ELSE a) \div g, Abs(b) \div g>> :
                  a \in {n}, b \in {d}} : TRUE

I(n) == <<n, 1>>

RAdd(x, y) ==
    CHOOSE r \in {LET g == GCD(a[2], b[2])
                  IN  Rat(a[1] * (b[2] \div g) + b[1] * (a[2] \div g), (a[2] \div g) * b[2]) :
                  a \in {x}, b \in {y}} : TRUE

RNeg(x) == CHOOSE r \in {<<-a[1], a[2]>> : a \in {x}} : TRUE

RSub(x, y) == RAdd(x, RNeg(y))

RMul(x, y) ==
    CHOOSE r \in {LET g1 == GCD(Abs(a[1]), b[2])
                      g2 == GCD(Abs(b[1]), a[2])
                  IN  Rat((a[1] \div g1) * (b[1] \div g2), (a[2] \div g2) * (b[2] \div g1)) :
                  a \in {x}, b \in {y}} : TRUE

RInv(y) == CHOOSE r \in {IF b[1] < 0 THEN <<-b[2], -b[1]>> ELSE <<b[2], b[1]>> : b \in {y}} : TRUE

RDiv(x, y) == RMul(x, RInv(y))

RLt(x, y) ==
    CHOOSE r \in {LET g == GCD(a[2], b[2])
                  IN  a[1] * (b[2] \div g) < b[1] * (a[2] \div g) :
                  a \in {x}, b \in {y}} : TRUE

RLe(x, y) == ~RLt(y, x)

RMax(x, y) == CHOOSE r \in {IF RLt(a, b) THEN b ELSE a : a \in {x}, b \in {y}} : TRUE

RMin(x, y) == CHOOSE r \in {IF RLt(b, a) THEN b ELSE a : a \in {x}, b \in {y}} : TRUE

RMax3(x, y, z) == RMax(RMax(x, y), z)

RMin3(x, y, z) == RMin(RMin(x, y), z)

RAbs(x) == CHOOSE r \in {<<Abs(a[1]), a[2]>> : a \in {x}} : TRUE

RFloor(x) == CHOOSE r \in {a[1] \div a[2] : a \in {x}} : TRUE

\* Python's float %: the result has the sign of the (positive) divisor
RMod(x, m) ==
    CHOOSE r \in {RSub(a, RMul(I(RFloor(RDiv(a, b))), b)) : a \in {x}, b \in {m}} : TRUE

----------------------------------------------------------------------------
(* Theme table and constructor (PDFVectorProcessorPikePDF.__init__) *)

themes ==
    [classic  |-> [r |-> 0,  g |-> 0,  b |-> 0],
     claude   |-> [r |-> 42, g |-> 37, b |-> 34],
     chatgpt  |-> [r |-> 52, g |-> 53, b |-> 65],
     sepia    |-> [r |-> 40, g |-> 35, b |-> 25],
     midnight |-> [r |-> 25, g |-> 30, b |-> 45],
     forest   |-> [r |-> 25, g |-> 35, b |-> 30]]

themes_get_any(name) == IF name \in DOMAIN themes THEN themes[name] ELSE themes["claude"]

\* self.themes.get(theme, self.themes["classic"])
themes_get(name) == IF name \in DOMAIN themes THEN themes[name] ELSE themes["classic"]

----------------------------------------------------------------------------
(* Colour math *)

rgb_to_hsv_unwrapped(r, g, b) ==
    LET max_val == RMax3(r, g, b)
        min_val == RMin3(r, g, b)
        diff    == RSub(max_val, min_val)
        h == IF diff = I(0) THEN I(0)
             ELSE IF max_val = r
                  THEN RMul(I(60), RDiv(RSub(g, b), diff))
             ELSE IF max_val = g
                  THEN RAdd(RMul(I(60), RDiv(RSub(b, r), diff)), I(120))
             ELSE RAdd(RMul(I(60), RDiv(RSub(r, g), diff)), I(240))
        s == IF max_val = I(0) THEN I(0) ELSE RDiv(diff, max_val)
        v == max_val
    IN  <<RDiv(h, I(360)), s, v>>

rgb_to_hsv(r, g, b) ==
    LET max_val == RMax3(r, g, b)
        min_val == RMin3(r, g, b)
        diff    == RSub(max_val, min_val)
        h == IF diff = I(0) THEN I(0)
             ELSE IF max_val = r
                  THEN RMod(RAdd(RMul(I(60), RDiv(RSub(g, b), diff)), I(360)), I(360))
             ELSE IF max_val = g
                  THEN RMod(RAdd(RMul(I(60), RDiv(RSub(b, r), diff)), I(120)), I(360))
             ELSE RMod(RAdd(RMul(I(60), RDiv(RSub(r, g), diff)), I(240)), I(360))
        s == IF max_val = I(0) THEN I(0) ELSE RDiv(diff, max_val)
        v == max_val
    IN  <<RDiv(h, I(360)), s, v>>

hsv_to_rgb(h0, s, v) ==
    LET h == RMul(h0, I(360))
        c == RMul(v, s)
        x == RMul(c, RSub(I(1), RAbs(RSub(RMod(RDiv(h, I(60)), I(2)), I(1)))))
        m == RSub(v, c)
        z == I(0)
        rgb == IF RLe(I(0), h) /\ RLt(h, I(60)) THEN <<c, x, z>>
               ELSE IF RLe(I(60), h) /\ RLt(h, I(120)) THEN <<x, c, z>>
               ELSE IF RLe(I(120), h) /\ RLt(h, I(180)) THEN <<z, c, x>>
               ELSE IF RLe(I(180), h) /\ RLt(h, I(240)) THEN <<z, x, c>>
               ELSE IF RLe(I(240), h) /\ RLt(h, I(300)) THEN <<x, z, c>>
               ELSE <<c, z, x>>
    IN  <<RAdd(rgb[1], m), RAdd(rgb[2], m), RAdd(rgb[3], m)>>

\* brightness = 0.299 * r + 0.587 * g + 0.114 * b
brightness(r, g, b) ==
    RAdd(RAdd(RMul(Rat(299, 1000), r), RMul(Rat(587, 1000), g)), RMul(Rat(114, 1000), b))

bg_rgb == <<Rat(bg_color.r, 255), Rat(bg_color.g, 255), Rat(bg_color.b, 255)>>

\* brightness < 0.15 with saturation: v = 0.65 + (v / 0.15) * 0.2, s = min(s * 1.1, 1.0), clamped
tier_very_dark_colored(h, s, v) ==
    LET v1 == RAdd(Rat(65, 100), RMul(RDiv(v, Rat(15, 100)), Rat(2, 10)))
        s1 == RMin(RMul(s, Rat(11, 10)), I(1))
    IN  CHOOSE new \in {<<RMin(RMax(n[1], I(0)), I(1)),
                          RMin(RMax(n[2], I(0)), I(1)),
                          RMin(RMax(n[3], I(0)), I(1))>> : n \in {hsv_to_rgb(h, s1, v1)}} : TRUE

tier_dark_flat_saturation(h, s, v) ==
    hsv_to_rgb(h, s, RAdd(Rat(75, 100), RMul(RSub(v, Rat(15, 100)), Rat(8, 10))))

\* brightness < 0.4: v = 0.75 + (v - 0.15) * 0.8, s = s * 0.85
tier_dark(h, s, v) ==
    hsv_to_rgb(h, RMul(s, Rat(85, 100)),
               RAdd(Rat(75, 100), RMul(RSub(v, Rat(15, 100)), Rat(8, 10))))

\* brightness < 0.6: v = 0.65 + (v - 0.4) * 1.0, s = s * 0.9
tier_medium_dark(h, s, v) ==
    hsv_to_rgb(h, RMul(s, Rat(9, 10)),
               RAdd(Rat(65, 100), RMul(RSub(v, Rat(4, 10)), I(1))))

\* other colours: v = 0.5 + v * 0.5
tier_other(h, s, v) ==
    hsv_to_rgb(h, s, RAdd(Rat(5, 10), RMul(v, Rat(5, 10))))

transform_rgb_inclusive_white(r, g, b) ==
    CHOOSE new \in
        {IF RLe(Rat(93, 100), br) THEN bg_rgb
         ELSE IF RLt(br, Rat(15, 100)) /\ RLt(hsv[2], Rat(3, 10))
              THEN <<Rat(98, 100), Rat(98, 100), Rat(98, 100)>>
         ELSE IF RLt(br, Rat(15, 100)) THEN tier_very_dark_colored(hsv[1], hsv[2], hsv[3])
         ELSE IF RLt(br, Rat(4, 10)) THEN tier_dark(hsv[1], hsv[2], hsv[3])
         ELSE IF RLt(br, Rat(6, 10)) THEN tier_medium_dark(hsv[1], hsv[2], hsv[3])
         ELSE tier_other(hsv[1], hsv[2], hsv[3]) :
         br \in {brightness(r, g, b)}, hsv \in {rgb_to_hsv(r, g, b)}} : TRUE

transform_rgb(r, g, b) ==
    CHOOSE new \in
        {IF RLt(Rat(93, 100), br) THEN bg_rgb
         ELSE IF RLt(br, Rat(15, 100)) /\ RLt(hsv[2], Rat(3, 10))
              THEN <<Rat(98, 100), Rat(98, 100), Rat(98, 100)>>
         ELSE IF RLt(br, Rat(15, 100)) THEN tier_very_dark_colored(hsv[1], hsv[2], hsv[3])
         ELSE IF RLt(br, Rat(4, 10)) THEN tier_dark(hsv[1], hsv[2], hsv[3])
         ELSE IF RLt(br, Rat(6, 10)) THEN tier_medium_dark(hsv[1], hsv[2], hsv[3])
         ELSE tier_other(hsv[1], hsv[2], hsv[3]) :
         br \in {brightness(r, g, b)}, hsv \in {rgb_to_hsv(r, g, b)}} : TRUE

\* bg_gray = (0.299 * bg.r + 0.587 * bg.g + 0.114 * bg.b) / 255.0
bg_gray_unweighted ==
    RDiv(Rat(bg_color.r + bg_color.g + bg_color.b, 3), I(255))

bg_gray ==
    RDiv(RAdd(RAdd(RMul(Rat(299, 1000), I(bg_color.r)),
                   RMul(Rat(587, 1000), I(bg_color.g))),
              RMul(Rat(114, 1000), I(bg_color.b))), I(255))

transform_grayscale_low_boundary(gray) ==
    IF RLt(Rat(93, 100), gray) THEN bg_gray
    ELSE IF RLe(gray, Rat(15, 100)) THEN Rat(98, 100)
    ELSE IF RLt(gray, Rat(4, 10))
         THEN RAdd(Rat(75, 100), RMul(RSub(gray, Rat(15, 100)), Rat(8, 10)))
    ELSE IF RLt(gray, Rat(6, 10))
         THEN RAdd(Rat(65, 100), RMul(RSub(gray, Rat(4, 10)), I(1)))
    ELSE RAdd(Rat(5, 10), RMul(gray, Rat(5, 10)))

transform_grayscale(gray) ==
    IF RLt(Rat(93, 100), gray) THEN bg_gray
    ELSE IF RLt(gray, Rat(15, 100)) THEN Rat(98, 100)
    ELSE IF RLt(gray, Rat(4, 10))
         THEN RAdd(Rat(75, 100), RMul(RSub(gray, Rat(15, 100)), Rat(8, 10)))
    ELSE IF RLt(gray, Rat(6, 10))
         THEN RAdd(Rat(65, 100), RMul(RSub(gray, Rat(4, 10)), I(1)))
    ELSE RAdd(Rat(5, 10), RMul(gray, Rat(5, 10)))

cmyk_to_rgb_ignoring_key(c, m, y, k) ==
    <<RSub(I(1), c), RSub(I(1), m), RSub(I(1), y)>>

\* r = (1 - c) * (1 - k), g = (1 - m) * (1 - k), b = (1 - y) * (1 - k)
cmyk_to_rgb(c, m, y, k) ==
    <<RMul(RSub(I(1), c), RSub(I(1), k)),
      RMul(RSub(I(1), m), RSub(I(1), k)),
      RMul(RSub(I(1), y), RSub(I(1), k))>>

rgb_to_cmyk_undivided(new_r, new_g, new_b) ==
    IF new_r = I(0) /\ new_g = I(0) /\ new_b = I(0)
    THEN <<I(0), I(0), I(0), I(1)>>
    ELSE LET new_k == RSub(I(1), RMax3(new_r, new_g, new_b))
         IN  IF RLt(new_k, I(1))
             THEN <<RSub(RSub(I(1), new_r), new_k),
                    RSub(RSub(I(1), new_g), new_k),
                    RSub(RSub(I(1), new_b), new_k),
                    new_k>>
             ELSE <<I(0), I(0), I(0), new_k>>

rgb_to_cmyk(new_r, new_g, new_b) ==
    IF new_r = I(0) /\ new_g = I(0) /\ new_b = I(0)
    THEN <<I(0), I(0), I(0), I(1)>>
    ELSE LET new_k == RSub(I(1), RMax3(new_r, new_g, new_b))
         IN  IF RLt(new_k, I(1))
             THEN <<RDiv(RSub(RSub(I(1), new_r), new_k), RSub(I(1), new_k)),
                    RDiv(RSub(RSub(I(1), new_g), new_k), RSub(I(1), new_k)),
                    RDiv(RSub(RSub(I(1), new_b), new_k), RSub(I(1), new_k)),
                    new_k>>
             ELSE <<I(0), I(0), I(0), new_k>>

transform_cmyk(c, m, y, k) ==
    CHOOSE out \in
        {CHOOSE cmyk \in {rgb_to_cmyk(new[1], new[2], new[3]) :
                              new \in {transform_rgb(rgb[1], rgb[2], rgb[3])}} : TRUE :
         rgb \in {cmyk_to_rgb(c, m, y, k)}} : TRUE

----------------------------------------------------------------------------
(* Text: a content stream is a string; Char(s, i) is its i-th character *)

Char(s, i) == SubSeq(s, i, i)

\* s[a-1:b] of the source language: empty when the range is empty, cut at the end
Slice(s, a, b) ==
    IF a > b \/ a > Len(s) THEN "" ELSE SubSeq(s, a, IF b > Len(s) THEN Len(s) ELSE b)

DigitChars == {"0", "1", "2", "3", "4", "5", "6", "7", "8", "9"}

Letters == "abcdefghijklmnopqrstuvwxyzABCDEFGHIJKLMNOPQRSTUVWXYZé"

\* \d
IsDigit(c) == c \in DigitChars

\* \s
IsSpace(c) == c \in {" ", "\n", "\t", "\r", "\f"}

\* \w, the class \b is defined by
IsWord(c) == IsDigit(c) \/ c = "_" \/ \E i \in 1..Len(Letters) : c = Char(Letters, i)

DigitValue(c) == CHOOSE n \in 0..9 : Char("0123456789", n + 1) = c

\* the value of the first n digits of t
RECURSIVE DigitsUpTo(_, _)
DigitsUpTo(t, n) ==
    IF n = 0 THEN 0 ELSE 10 * DigitsUpTo(t, n - 1) + DigitValue(Char(t, n))

DigitsToInt(t) == DigitsUpTo(t, Len(t))

RECURSIVE Pow10(_)
Pow10(n) == IF n = 0 THEN 1 ELSE 10 * Pow10(n - 1)

RECURSIVE IndexOfDot(_, _)
IndexOfDot(t, i) ==
    IF i > Len(t) THEN 0 ELSE IF Char(t, i) = "." THEN i ELSE IndexOfDot(t, i + 1)

\* float(match.group(n)) on a matched operand: digits, optional dot, digits
float(t) ==
    LET d == IndexOfDot(t, 1)
    IN  IF d = 0 THEN I(DigitsToInt(t))
        ELSE LET ip == Slice(t, 1, d - 1)
                 fp == Slice(t, d + 1, Len(t))
             IN  RAdd(I(DigitsToInt(ip)), Rat(DigitsToInt(fp), Pow10(Len(fp))))

RECURSIVE IntToText(_)
IntToText(n) ==
    IF n < 10 THEN Char("0123456789", n + 1)
    ELSE IntToText(n \div 10) \o Char("0123456789", (n % 10) + 1)

\* f"{x:.4f}": sign, integer part, dot, four decimals, rounded half to even
format_4f(x) ==
    LET a  == RAbs(x)
        d  == a[2]
        ip == a[1] \div d
        r0 == a[1] % d
        d1 == (r0 * 10) \div d
        r1 == (r0 * 10) % d
        d2 == (r1 * 10) \div d
        r2 == (r1 * 10) % d
        d3 == (r2 * 10) \div d
        r3 == (r2 * 10) % d
        d4 == (r3 * 10) \div d
        r4 == (r3 * 10) % d
        fr == d1 * 1000 + d2 * 100 + d3 * 10 + d4
        up == IF 2 * r4 > d THEN 1
              ELSE IF 2 * r4 = d /\ fr % 2 = 1 THEN 1 ELSE 0
        scaled == ip * 10000 + fr + up
        f  == scaled % 10000
        pad == IF f < 10 THEN "000" ELSE IF f < 100 THEN "00" ELSE IF f < 1000 THEN "0" ELSE ""
    IN  (IF x[1] < 0 THEN "-" ELSE "") \o IntToText(scaled \div 10000) \o "." \o pad \o IntToText(f)

----------------------------------------------------------------------------
(* The six substitution patterns of _transform_content_stream.  A pattern  *)
(* is n operands, each followed by \s+, then the operator token, then \b   *)
(* when bounded.  lead_dot: the operand is \d*\.?\d+ , otherwise \d+\.?\d* *)

pattern_rg == [n |-> 3, lead_dot |-> TRUE,  op |-> "rg", bounded |-> FALSE, kind |-> "rgb"]

pattern_RG == [n |-> 3, lead_dot |-> TRUE,  op |-> "RG", bounded |-> FALSE, kind |-> "rgb"]

pattern_g_unbounded == [n |-> 1, lead_dot |-> FALSE, op |-> "g", bounded |-> FALSE, kind |-> "gray"]

pattern_g == [n |-> 1, lead_dot |-> FALSE, op |-> "g", bounded |-> TRUE, kind |-> "gray"]

pattern_G == [n |-> 1, lead_dot |-> FALSE, op |-> "G", bounded |-> TRUE, kind |-> "gray"]

pattern_k == [n |-> 4, lead_dot |-> FALSE, op |-> "k", bounded |-> TRUE, kind |-> "cmyk"]

pattern_K == [n |-> 4, lead_dot |-> FALSE, op |-> "K", bounded |-> TRUE, kind |-> "cmyk"]

\* end (exclusive) of the run of digits and dots starting at i
RECURSIVE RunEnd(_, _)
RunEnd(s, i) ==
    IF i <= Len(s) /\ (IsDigit(Char(s, i)) \/ Char(s, i) = ".") THEN RunEnd(s, i + 1) ELSE i

\* end (exclusive) of the run of whitespace starting at i
RECURSIVE SpaceEnd(_, _)
SpaceEnd(s, i) ==
    IF i <= Len(s) /\ IsSpace(Char(s, i)) THEN SpaceEnd(s, i + 1) ELSE i

CountDots(t) == Cardinality({i \in 1..Len(t) : Char(t, i) = "."})

\* \d*\.?\d+  or  \d+\.?\d*  against a whole run of digits and dots
OperandForm(t, lead_dot) ==
    /\ t # ""
    /\ CountDots(t) <= 1
    /\ IF lead_dot THEN IsDigit(Char(t, Len(t))) ELSE IsDigit(Char(t, 1))

\* the operands of a match starting at i: <<groups, position after the last \s+>>,
\* or <<>> when the text at i does not match.  An operand is followed by \s+, so
\* it extends to the end of its run and the run must end in whitespace.
RECURSIVE Operands(_, _, _, _, _)
Operands(s, i, n, lead_dot, groups) ==
    IF n = 0 THEN <<groups, i>>
    ELSE CHOOSE found \in
           {CHOOSE rest \in
              {IF OperandForm(Slice(s, i, e - 1), lead_dot) /\ w > e
               THEN Operands(s, w, n - 1, lead_dot, Append(groups, Slice(s, i, e - 1)))
               ELSE <<>> : w \in {SpaceEnd(s, e)}} : TRUE :
            e \in {RunEnd(s, i)}} : TRUE

\* the match of a pattern at position i, [groups, end], or [end |-> 0] for none
MatchAt(s, i, pat) ==
    CHOOSE m \in
        {IF o = <<>> THEN [end |-> 0, groups |-> <<>>]
         ELSE LET e == o[2] + Len(pat.op)
              IN  IF /\ Slice(s, o[2], e - 1) = pat.op
                     /\ (pat.bounded => (e > Len(s) \/ ~IsWord(Char(s, e))))
                  THEN [end |-> e, groups |-> o[1]]
                  ELSE [end |-> 0, groups |-> <<>>] :
         o \in {Operands(s, i, pat.n, pat.lead_dot, <<>>)}} : TRUE

\* the operator written without its first letter
replace_rgb_short_operator(groups, operator) ==
    CHOOSE text \in
        {format_4f(new[1]) \o " " \o format_4f(new[2]) \o " " \o format_4f(new[3])
             \o " " \o Slice(operator, 2, 2) :
         new \in {transform_rgb(float(groups[1]), float(groups[2]), float(groups[3]))}} : TRUE

replace_rgb(groups, operator) ==
    CHOOSE text \in
        {format_4f(new[1]) \o " " \o format_4f(new[2]) \o " " \o format_4f(new[3])
             \o " " \o operator :
         new \in {transform_rgb(float(groups[1]), float(groups[2]), float(groups[3]))}} : TRUE

replace_gray_unspaced(groups, operator) ==
    CHOOSE text \in
        {format_4f(new_gray) \o " " \o operator :
         new_gray \in {transform_grayscale(float(groups[1]))}} : TRUE

replace_gray(groups, operator) ==
    CHOOSE text \in
        {format_4f(new_gray) \o " " \o operator \o " " :
         new_gray \in {transform_grayscale(float(groups[1]))}} : TRUE

replace_cmyk_without_operator(groups, operator) ==
    CHOOSE text \in
        {format_4f(new[1]) \o " " \o format_4f(new[2]) \o " " \o format_4f(new[3])
             \o " " \o format_4f(new[4]) \o " " :
         new \in {transform_cmyk(float(groups[1]), float(groups[2]),
                                  float(groups[3]), float(groups[4]))}} : TRUE

replace_cmyk(groups, operator) ==
    CHOOSE text \in
        {format_4f(new[1]) \o " " \o format_4f(new[2]) \o " " \o format_4f(new[3])
             \o " " \o format_4f(new[4]) \o " " \o operator \o " " :
         new \in {transform_cmyk(float(groups[1]), float(groups[2]),
                                  float(groups[3]), float(groups[4]))}} : TRUE

Replacement(pat, groups) ==
    IF pat.kind = "rgb" THEN replace_rgb(groups, pat.op)
    ELSE IF pat.kind = "gray" THEN replace_gray(groups, pat.op)
    ELSE replace_cmyk(groups, pat.op)

\* re.sub(pattern, callback, content): one left-to-right sweep over non-overlapping
\* matches; from is the start of the text not yet copied, i the candidate start
RECURSIVE Sweep(_, _, _, _, _)
Sweep(s, from, i, pat, out) ==
    IF i > Len(s) THEN out \o Slice(s, from, Len(s))
    ELSE CHOOSE text \in
           {IF m.end = 0 THEN Sweep(s, from, i + 1, pat, out)
            ELSE CHOOSE rest \in
                   {Sweep(s, m.end, m.end, pat, done) :
                    done \in {out \o Slice(s, from, i - 1) \o Replacement(pat, m.groups)}} : TRUE :
            m \in {MatchAt(s, i, pat)}} : TRUE

re_sub_anchored(pat, s) ==
    CHOOSE out \in {IF MatchAt(text, 1, pat).end = 0 THEN text
                    ELSE Sweep(text, 1, 1, pat, "") : text \in {s}} : TRUE

re_sub(pat, s) == CHOOSE out \in {Sweep(text, 1, 1, pat, "") : text \in {s}} : TRUE

\* the patterns in the order _transform_content_stream applies them
Passes == <<pattern_rg, pattern_RG, pattern_g, pattern_G, pattern_k, pattern_K>>

\* _transform_content_stream(content): the six substitutions, each on the result
\* of the one before
RECURSIVE SubstituteUpTo(_, _)
SubstituteUpTo(text, n) ==
    IF n = 0 THEN text ELSE re_sub(Passes[n], SubstituteUpTo(text, n - 1))

transform_content_stream(text) == SubstituteUpTo(text, Len(Passes))

----------------------------------------------------------------------------
(* Inputs of the colour functions *)

ThemeArgs == DOMAIN themes \cup {"neon"}

Grid == {Rat(k, GridDen) : k \in 0..GridDen}

Thresholds == {Rat(15, 100), Rat(4, 10), Rat(6, 10), Rat(93, 100)}

\* operand values as float() reads them from a stream; 3, 5 and 2 lie outside [0, 1]
RgbChan == Grid \cup Thresholds \cup {I(3)}

GrayChan == Grid \cup Thresholds \cup {Rat(1, 10), Rat(95, 100), I(5)}

CmykChan == Grid \cup {I(2)}

HueGrid == {Rat(k, HueDen) : k \in 0..(HueDen - 1)}

ColorInputs ==
    {[space |-> "rgb", val |-> <<r, g, b>>] : r \in RgbChan, g \in RgbChan, b \in RgbChan}
    \cup {[space |-> "gray", val |-> <<g>>] : g \in GrayChan}
    \cup {[space |-> "cmyk", val |-> <<c, m, y, k>>] :
              c \in CmykChan, m \in CmykChan, y \in CmykChan, k \in CmykChan}
    \cup {[space |-> "hsv", val |-> <<h, s, v>>] : h \in HueGrid, s \in Grid, v \in Grid}

----------------------------------------------------------------------------
(* Colour specification: a processor is constructed with a theme, a colour *)
(* is handed to it, and the colour functions are applied.                  *)

InitColor ==
    /\ theme \in ThemeArgs
    /\ bg_color = themes_get(theme)
    /\ orig \in ColorInputs
    /\ space = orig.space
    /\ val = orig.val
    /\ hist = <<>>
    /\ content = <<>>
    /\ original = <<>>
    /\ pass = 0
    /\ applied = {}
    /\ NoDocument
    /\ NoBatch

Apply(name, newSpace, newVal) ==
    /\ Len(hist) < MaxSteps
    /\ space' = newSpace
    /\ val' = newVal
    /\ hist' = Append(hist, name)
    /\ UNCHANGED <<theme, bg_color, orig, content, original, pass, applied>>
    /\ UNCHANGED docVars
    /\ UNCHANGED guiVars

\* the remappers are called on operands read from a stream
TransformRgb ==
    /\ space = "rgb" /\ hist = <<>>
    /\ Apply("transform_rgb", "rgb", transform_rgb(val[1], val[2], val[3]))

TransformGrayscale ==
    /\ space = "gray" /\ hist = <<>>
    /\ Apply("transform_grayscale", "gray", <<transform_grayscale(val[1])>>)

TransformCmyk ==
    /\ space = "cmyk" /\ hist = <<>>
    /\ Apply("transform_cmyk", "cmyk", transform_cmyk(val[1], val[2], val[3], val[4]))

RgbToHsv ==
    /\ space = "rgb"
    /\ Apply("rgb_to_hsv", "hsv", rgb_to_hsv(val[1], val[2], val[3]))

HsvToRgb ==
    /\ space = "hsv"
    /\ Apply("hsv_to_rgb", "rgb", hsv_to_rgb(val[1], val[2], val[3]))

CmykToRgb ==
    /\ space = "cmyk"
    /\ Apply("cmyk_to_rgb", "rgb", cmyk_to_rgb(val[1], val[2], val[3], val[4]))

RgbToCmyk ==
    /\ space = "rgb"
    /\ Apply("rgb_to_cmyk", "cmyk", rgb_to_cmyk(val[1], val[2], val[3]))

NextColor ==
    \/ TransformRgb
    \/ TransformGrayscale
    \/ TransformCmyk
    \/ RgbToHsv
    \/ HsvToRgb
    \/ CmykToRgb
    \/ RgbToCmyk

SpecColor == InitColor /\ [][NextColor]_vars

----------------------------------------------------------------------------
(* Properties of the colour functions *)

InUnit(x) == RLe(I(0), x) /\ RLe(x, I(1))

AllInUnit(t) == \A i \in DOMAIN t : InUnit(t[i])

Clamp01(t) == [i \in DOMAIN t |-> RMin(RMax(t[i], I(0)), I(1))]

ThemeBackground == <<Rat(bg_color.r, 255), Rat(bg_color.g, 255), Rat(bg_color.b, 255)>>

RemappedRgb == hist = <<"transform_rgb">> /\ orig.space = "rgb"

RemappedGray == hist = <<"transform_grayscale">> /\ orig.space = "gray"

RemappedCmyk == hist = <<"transform_cmyk">> /\ orig.space = "cmyk"

OrigBrightness == brightness(orig.val[1], orig.val[2], orig.val[3])

\* C1: an RGB triple in [0,1]^3 with brightness strictly above 0.93 is remapped to
\* exactly the theme background (bg/255 per channel); brightness exactly 0.93 is not.
C1_BrightToBackground ==
    (RemappedRgb /\ AllInUnit(orig.val)) =>
        /\ RLt(Rat(93, 100), OrigBrightness) => val = ThemeBackground
        /\ OrigBrightness = Rat(93, 100) => val # ThemeBackground

C1_Witness ==
    /\ RemappedRgb /\ AllInUnit(orig.val)
    /\ RLt(Rat(93, 100), OrigBrightness)
    /\ theme = "claude"
    /\ val = <<Rat(42, 255), Rat(37, 255), Rat(34, 255)>>

C3_ChannelsInUnit ==
    (RemappedRgb /\ AllInUnit(orig.val)) => AllInUnit(val)

\* C4: an operand outside [0,1] is clamped into [0,1] before tier classification, so
\* the remapped result equals the remapped result of the clamped colour.
C4_OperandsClamped ==
    /\ RemappedRgb =>
          LET c == Clamp01(orig.val) IN val = transform_rgb(c[1], c[2], c[3])
    /\ RemappedGray =>
          val = <<transform_grayscale(Clamp01(orig.val)[1])>>
    /\ RemappedCmyk =>
          LET c == Clamp01(orig.val) IN val = transform_cmyk(c[1], c[2], c[3], c[4])

\* C5: a gray value in [0,1] is remapped by the one-channel table: luma(bg)/255 above
\* 0.93, 0.98 below 0.15, 0.75+(g-0.15)*0.8 on [0.15,0.40), 0.65+(g-0.4) on
\* [0.40,0.60), 0.5+0.5*g otherwise; gray 0 maps to 0.98.
C5_GrayTable ==
    (RemappedGray /\ InUnit(orig.val[1])) =>
        LET g == orig.val[1]
            luma == RAdd(RAdd(RMul(Rat(299, 1000), I(bg_color.r)),
                              RMul(Rat(587, 1000), I(bg_color.g))),
                         RMul(Rat(114, 1000), I(bg_color.b)))
        IN  /\ val[1] =
                 IF RLt(Rat(93, 100), g) THEN RDiv(luma, I(255))
                 ELSE IF RLt(g, Rat(15, 100)) THEN Rat(98, 100)
                 ELSE IF RLe(Rat(15, 100), g) /\ RLt(g, Rat(40, 100))
                      THEN RAdd(Rat(75, 100), RMul(RSub(g, Rat(15, 100)), Rat(8, 10)))
                 ELSE IF RLe(Rat(40, 100), g) /\ RLt(g, Rat(60, 100))
                      THEN RAdd(Rat(65, 100), RSub(g, Rat(4, 10)))
                 ELSE RAdd(Rat(5, 10), RMul(Rat(5, 10), g))
            /\ g = I(0) => val[1] = Rat(98, 100)

\* the boundary value 0.15 has been remapped by the [0.15,0.40) row
C5_Witness ==
    /\ RemappedGray
    /\ orig.val[1] = Rat(15, 100)
    /\ val[1] = Rat(75, 100)

\* C7: transform_cmyk is rgbToCmyk after transform_rgb after cmykToRgb, with (0,0,0,1)
\* when the remapped RGB is exactly (0,0,0); pure black (0,0,0,1) maps to (0,0,0,0.02)
\* and white (0,0,0,0) under theme classic maps to (0,0,0,1).
C7_CmykViaRgb ==
    (RemappedCmyk /\ AllInUnit(orig.val)) =>
        LET c == orig.val[1]
            m == orig.val[2]
            y == orig.val[3]
            k == orig.val[4]
            n == transform_rgb(RMul(RSub(I(1), c), RSub(I(1), k)),
                               RMul(RSub(I(1), m), RSub(I(1), k)),
                               RMul(RSub(I(1), y), RSub(I(1), k)))
            k1 == RSub(I(1), RMax3(n[1], n[2], n[3]))
        IN  /\ n = <<I(0), I(0), I(0)>> => val = <<I(0), I(0), I(0), I(1)>>
            /\ (n # <<I(0), I(0), I(0)>> /\ RLt(k1, I(1))) =>
                  val = <<RDiv(RSub(RSub(I(1), n[1]), k1), RSub(I(1), k1)),
                          RDiv(RSub(RSub(I(1), n[2]), k1), RSub(I(1), k1)),
                          RDiv(RSub(RSub(I(1), n[3]), k1), RSub(I(1), k1)),
                          k1>>
            /\ orig.val = <<I(0), I(0), I(0), I(1)>> =>
                  val = <<I(0), I(0), I(0), Rat(2, 100)>>
            /\ (orig.val = <<I(0), I(0), I(0), I(0)>> /\ theme = "classic") =>
                  val = <<I(0), I(0), I(0), I(1)>>

\* pure CMYK black has been remapped to near-white
C7_Witness ==
    /\ RemappedCmyk
    /\ orig.val = <<I(0), I(0), I(0), I(1)>>
    /\ val = <<I(0), I(0), I(0), Rat(2, 100)>>

HsvRoundTrip == orig.space = "hsv" /\ hist = <<"hsv_to_rgb", "rgb_to_hsv">>

\* C8 as stated: rgb_to_hsv(hsv_to_rgb(h,s,v)) = (h,s,v) whenever s # 0 (v = 0
\* included), and s, v round-trip when s = 0.
C8_RoundTripUnlessGray ==
    HsvRoundTrip =>
        /\ orig.val[2] # I(0) => val = orig.val
        /\ orig.val[2] = I(0) => (val[2] = orig.val[2] /\ val[3] = orig.val[3])

\* C8 amended: the round trip returns (h,s,v) whenever s # 0 and v # 0; when s = 0
\* the s and v components round-trip; when v = 0 the result is (0,0,0), so v
\* round-trips and h, s are lost.
C8_RoundTripUnlessGrayOrBlack ==
    HsvRoundTrip =>
        /\ (orig.val[2] # I(0) /\ orig.val[3] # I(0)) => val = orig.val
        /\ orig.val[2] = I(0) => (val[2] = orig.val[2] /\ val[3] = orig.val[3])
        /\ orig.val[3] = I(0) => val = <<I(0), I(0), I(0)>>

\* a saturated colour in the last hue sector has made the round trip
C8_Witness ==
    /\ HsvRoundTrip
    /\ orig.val[2] # I(0) /\ orig.val[3] # I(0)
    /\ RLe(Rat(300, 360), orig.val[1])
    /\ val = orig.val

CmykRoundTrip ==
    orig.space = "cmyk" /\ AllInUnit(orig.val) /\ hist = <<"cmyk_to_rgb", "rgb_to_cmyk">>

\* C9 as stated: cmykToRgb then rgbToCmyk returns the original tuple for every k < 1
\* (c, m, y all positive included), and (0,0,0,1) round-trips exactly.
C9_RoundTripBelowFullKey ==
    CmykRoundTrip =>
        /\ RLt(orig.val[4], I(1)) => val = orig.val
        /\ orig.val = <<I(0), I(0), I(0), I(1)>> => val = orig.val

\* C9 amended: the round trip returns the original tuple for every k < 1 with at
\* least one of c, m, y equal to 0; (0,0,0,1) round-trips exactly.
C9_RoundTripWithZeroInk ==
    CmykRoundTrip =>
        /\ (RLt(orig.val[4], I(1)) /\ RMin3(orig.val[1], orig.val[2], orig.val[3]) = I(0))
              => val = orig.val
        /\ orig.val = <<I(0), I(0), I(0), I(1)>> => val = orig.val

\* a tuple with two inks and a partial key has made the round trip
C9_Witness ==
    /\ CmykRoundTrip
    /\ orig.val[1] # I(0) /\ orig.val[2] # I(0) /\ orig.val[3] = I(0)
    /\ orig.val[4] # I(0) /\ RLt(orig.val[4], I(1))
    /\ val = orig.val

----------------------------------------------------------------------------
(* Content streams handed to _transform_content_stream *)

ColourPhrases ==
    {"1.0 1.0 1.0 rg", "0 0 0 RG", "0.5 g", "1 g", "0.2 G", "0 0 0 1 k", "0 0.5 1 0 K",
     "0\n0\n0 rg"}

NonColourPhrases == {"1 0 0 1 0 0 cm", "0.5 w", "/GS1 gs", "BT"}

OddPhrases ==
    {".5 g", "-0.5 0 0 rg", "3 0 0 rg", "5 g", "2 0 0 0 k", "1 0 0 rgb", "1 0 0 RGx",
     "0 gs", "0 0 0 1 kx", "x y z rg", "/F1 0 0 rg"}

Phrases == ColourPhrases \cup NonColourPhrases \cup OddPhrases

\* streams of one to n phrases from P separated by single spaces
RECURSIVE StreamsOf(_, _)
StreamsOf(P, n) ==
    IF n = 1 THEN P
    ELSE LET shorter == StreamsOf(P, n - 1)
         IN  shorter \cup {t \o " " \o p : t \in shorter, p \in P}

StreamThemes == {"classic", "claude"}

----------------------------------------------------------------------------
(* Stream specification: _transform_content_stream runs its six            *)
(* substitutions in order over the content of a page.                      *)

InitStream ==
    /\ theme \in StreamThemes
    /\ bg_color = themes_get(theme)
    /\ original \in StreamsOf(Phrases, MaxItems)
    /\ content = original
    /\ pass = 0
    /\ space = "none"
    /\ val = <<>>
    /\ orig = [space |-> "none", val |-> <<>>]
    /\ hist = <<>>
    /\ applied = {}
    /\ NoDocument
    /\ NoBatch

Substitute(n, pat) ==
    /\ pass = n - 1
    /\ content' = re_sub(pat, content)
    /\ pass' = n
    /\ UNCHANGED <<theme, bg_color, original, space, val, orig, hist, applied>>
    /\ UNCHANGED docVars
    /\ UNCHANGED guiVars

SubstituteFillRgb == Substitute(1, pattern_rg)

SubstituteStrokeRgb == Substitute(2, pattern_RG)

SubstituteFillGray == Substitute(3, pattern_g)

SubstituteStrokeGray == Substitute(4, pattern_G)

SubstituteFillCmyk == Substitute(5, pattern_k)

SubstituteStrokeCmyk == Substitute(6, pattern_K)

\* a stream the rewriter has produced is handed to the rewriter again (the
\* converted document is converted once more)
Rescan ==
    /\ pass = Len(Passes)
    /\ hist = <<>>
    /\ original' = content
    /\ pass' = 0
    /\ hist' = <<"rescan">>
    /\ UNCHANGED <<theme, bg_color, content, space, val, orig, applied>>
    /\ UNCHANGED docVars
    /\ UNCHANGED guiVars

NextStream ==
    \/ Rescan
    \/ SubstituteFillRgb
    \/ SubstituteStrokeRgb
    \/ SubstituteFillGray
    \/ SubstituteStrokeGray
    \/ SubstituteFillCmyk
    \/ SubstituteStrokeCmyk

SpecStream == InitStream /\ [][NextStream]_vars

\* _transform_content_stream has returned
Rewritten == pass = 6

----------------------------------------------------------------------------
(* Order specification: the six substitutions of _transform_content_stream  *)
(* applied once each, in any order, to a well-formed stream.                *)

\* whitespace-separated well-formed occurrences (operands in [0,1]) and
\* non-colour tokens
WellFormedStreams == StreamsOf(ColourPhrases \cup NonColourPhrases, MaxItems)

InitOrder ==
    /\ theme \in StreamThemes
    /\ bg_color = themes_get(theme)
    /\ original \in WellFormedStreams
    /\ content = original
    /\ pass = 0
    /\ applied = {}
    /\ space = "none"
    /\ val = <<>>
    /\ orig = [space |-> "none", val |-> <<>>]
    /\ hist = <<>>
    /\ NoDocument
    /\ NoBatch

\* one of the substitutions not yet applied is applied
SubstituteAnyOrder ==
    \E n \in DOMAIN Passes \ applied :
        /\ content' = re_sub(Passes[n], content)
        /\ applied' = applied \cup {n}
        /\ pass' = pass + 1
        /\ UNCHANGED <<theme, bg_color, original, space, val, orig, hist>>
        /\ UNCHANGED docVars
        /\ UNCHANGED guiVars

NextOrder == SubstituteAnyOrder

SpecOrder == InitOrder /\ [][NextOrder]_vars

----------------------------------------------------------------------------
(* Documents.  A page content stream is a sequence of byte values; latin-1  *)
(* maps byte b to the character with code point b and back.                 *)

\* the characters with code points 35..91, 93..95 and 97..126
AsciiFrom35 == "#$%&'()*+,-./0123456789:;<=>?@ABCDEFGHIJKLMNOPQRSTUVWXYZ["

AsciiFrom93 == "]^_"

AsciiFrom97 == "abcdefghijklmnopqrstuvwxyz{|}~"

\* the byte values of the model: tab, LF, FF, CR, the printable ASCII bytes but
\* the double quote, the backslash and the grave accent, 0xA7 and 0xE9
ModelBytes ==
    {9, 10, 12, 13, 32, 33} \cup (35..91) \cup (93..95) \cup (97..126) \cup {167, 233}

latin1_char(b) ==
    IF b >= 35 /\ b <= 91 THEN Char(AsciiFrom35, b - 34)
    ELSE IF b >= 93 /\ b <= 95 THEN Char(AsciiFrom93, b - 92)
    ELSE IF b >= 97 /\ b <= 126 THEN Char(AsciiFrom97, b - 96)
    ELSE IF b = 32 THEN " "
    ELSE IF b = 33 THEN "!"
    ELSE IF b = 9 THEN "\t"
    ELSE IF b = 10 THEN "\n"
    ELSE IF b = 12 THEN "\f"
    ELSE IF b = 13 THEN "\r"
    ELSE IF b = 167 THEN "§"
    ELSE "é"

RECURSIVE decode_ascii_ignore(_)
decode_ascii_ignore(data) ==
    IF data = <<>> THEN ""
    ELSE (IF Head(data) < 128 THEN latin1_char(Head(data)) ELSE "")
             \o decode_ascii_ignore(Tail(data))

\* content_data.decode('latin-1', errors='ignore'): every byte decodes
RECURSIVE decode_latin1(_)
decode_latin1(data) ==
    IF data = <<>> THEN "" ELSE latin1_char(Head(data)) \o decode_latin1(Tail(data))

\* modified_content.encode('latin-1')
encode_latin1(text) ==
    [i \in 1..Len(text) |-> CHOOSE b \in ModelBytes : latin1_char(b) = Char(text, i)]

\* '\n'.join(all_content)
RECURSIVE join_newline(_)
join_newline(parts) ==
    IF parts = <<>> THEN ""
    ELSE IF Len(parts) = 1 THEN parts[1]
    ELSE parts[1] \o "\n" \o join_newline(Tail(parts))

\* the page drawn by _create_background_pdf and the rectangle it is placed in
underlay_from_corner(mediabox, bg) ==
    [width  |-> mediabox[3],
     height |-> mediabox[4],
     fill   |-> <<Rat(bg.r, 255), Rat(bg.g, 255), Rat(bg.b, 255)>>]

underlay_of(mediabox, bg) ==
    [width  |-> mediabox[3] - mediabox[1],
     height |-> mediabox[4] - mediabox[2],
     fill   |-> <<Rat(bg.r, 255), Rat(bg.g, 255), Rat(bg.b, 255)>>]

\* content stream fragments: `0.5 g`, `0 0 0`, `rg`, `BT`, `(\xe9\xa7) Tj`
FragmentGray == <<48, 46, 53, 32, 103>>
FragmentOperands == <<48, 32, 48, 32, 48>>
FragmentOperator == <<114, 103>>
FragmentBT == <<66, 84>>
FragmentHighBytes == <<40, 233, 167, 41, 32, 84, 106>>

NoContents == [kind |-> "absent", data |-> <<>>]

Single(f) == [kind |-> "stream", data |-> <<f>>]

Array(fs) == [kind |-> "array", data |-> fs]

Page(mediabox, contents, fault) ==
    [MediaBox |-> mediabox, Contents |-> contents, fault |-> fault, underlay |-> <<>>]

\* fault names the library call that raises on the page, if any
PageShapes ==
    {Page(<<0, 0, 6, 8>>, NoContents, "none"),
     Page(<<0, 0, 6, 8>>, Single(FragmentGray), "none"),
     Page(<<1, 2, 4, 7>>, Array(<<FragmentOperands, FragmentOperator>>), "none"),
     Page(<<0, 0, 6, 8>>, Array(<<FragmentHighBytes, FragmentGray>>), "none"),
     Page(<<1, 2, 4, 7>>, Array(<<FragmentBT, FragmentHighBytes>>), "none"),
     Page(<<0, 0, 6, 8>>, Array(<<>>), "none"),
     Page(<<0, 0, 6, 8>>, Single(FragmentGray), "MediaBox"),
     Page(<<0, 0, 6, 8>>, Single(FragmentGray), "add_underlay"),
     Page(<<1, 2, 4, 7>>, Array(<<FragmentOperands, FragmentOperator>>), "read_bytes"),
     Page(<<0, 0, 6, 8>>, Array(<<FragmentHighBytes, FragmentGray>>), "Stream")}

RECURSIVE PageLists(_)
PageLists(n) ==
    IF n = 0 THEN {<<>>}
    ELSE LET shorter == PageLists(n - 1)
         IN  shorter \cup {Append(l, p) : l \in {x \in shorter : Len(x) = n - 1}, p \in PageShapes}

\* input_bytes: a valid container with its pages, or bytes that are no PDF
Documents ==
    {[valid |-> TRUE, pages |-> l] : l \in PageLists(MaxPages)}
    \cup {[valid |-> FALSE, pages |-> <<>>]}

----------------------------------------------------------------------------
(* Document specification: process_pdf opens the document, runs            *)
(* _process_page on every page and saves.                                   *)

InitDoc ==
    /\ theme \in ThemeArgs
    /\ bg_color = themes_get(theme)
    /\ pdf \in Documents
    /\ page_no = 0
    /\ pc = "idle"
    /\ all_content = <<>>
    /\ events = <<>>
    /\ warnings = <<>>
    /\ result = "none"
    /\ content = ""
    /\ original = ""
    /\ pass = 0
    /\ applied = {}
    /\ space = "none"
    /\ val = <<>>
    /\ orig = [space |-> "none", val |-> <<>>]
    /\ hist = <<>>
    /\ NoBatch

processorVars == <<theme, bg_color, space, val, orig, hist, pass, applied>>

\* self.pdf = Pdf.open(...): raises to the caller when the bytes are no PDF
Open ==
    /\ pc = "idle"
    /\ IF pdf.valid
       THEN /\ page_no' = 1
            /\ pc' = IF pdf.pages = <<>> THEN "save" ELSE "underlay"
            /\ result' = result
       ELSE /\ page_no' = page_no
            /\ pc' = "done"
            /\ result' = "raised"
    /\ UNCHANGED <<pdf, all_content, events, warnings, content, original>>
    /\ UNCHANGED processorVars
    /\ UNCHANGED guiVars

\* _process_page returns and the loop of process_pdf moves on
PageDone ==
    /\ page_no' = page_no + 1
    /\ pc' = IF page_no < Len(pdf.pages) THEN "underlay" ELSE "save"
    /\ all_content' = <<>>

PageFailedAborts ==
    /\ warnings' = warnings
    /\ events' = Append(events, <<page_no, "raise">>)
    /\ page_no' = page_no
    /\ pc' = "done"
    /\ all_content' = <<>>

\* except Exception: the warning is printed and _process_page returns
PageFailed ==
    /\ warnings' = Append(warnings, page_no)
    /\ events' = Append(events, <<page_no, "warning">>)
    /\ PageDone

\* MediaBox is read, the background page is created and added as underlay
AddUnderlay ==
    /\ pc = "underlay"
    /\ LET page == pdf.pages[page_no]
       IN  IF page.fault \in {"MediaBox", "add_underlay"}
           THEN PageFailed /\ pdf' = pdf
           ELSE /\ pdf' = [pdf EXCEPT !.pages[page_no].underlay =
                                   <<underlay_of(page.MediaBox, bg_color)>>]
                /\ events' = Append(events, <<page_no, "underlay">>)
                /\ pc' = "contents"
                /\ UNCHANGED <<page_no, all_content, warnings>>
    /\ UNCHANGED <<result, content, original>>
    /\ UNCHANGED processorVars
    /\ UNCHANGED guiVars

\* if Name.Contents not in page: return
CheckContents ==
    /\ pc = "contents"
    /\ IF pdf.pages[page_no].Contents.kind = "absent"
       THEN PageDone
       ELSE pc' = "read" /\ UNCHANGED <<page_no, all_content>>
    /\ UNCHANGED <<pdf, events, warnings, result, content, original>>
    /\ UNCHANGED processorVars
    /\ UNCHANGED guiVars

\* the fragments are read and decoded in order
ReadContents ==
    /\ pc = "read"
    /\ LET page == pdf.pages[page_no]
       IN  IF page.fault = "read_bytes"
           THEN PageFailed
           ELSE /\ all_content' = [i \in DOMAIN page.Contents.data |->
                                       decode_latin1(page.Contents.data[i])]
                /\ events' = Append(events, <<page_no, "read">>)
                /\ pc' = "transform"
                /\ UNCHANGED <<page_no, warnings>>
    /\ UNCHANGED <<pdf, result, content, original>>
    /\ UNCHANGED processorVars
    /\ UNCHANGED guiVars

\* combined_content is joined and handed to _transform_content_stream
TransformContent ==
    /\ pc = "transform"
    /\ original' = join_newline(all_content)
    /\ content' = transform_content_stream(join_newline(all_content))
    /\ events' = Append(events, <<page_no, "rewrite">>)
    /\ pc' = "install"
    /\ UNCHANGED <<pdf, page_no, all_content, warnings, result>>
    /\ UNCHANGED processorVars
    /\ UNCHANGED guiVars

\* a stream installed before the call that raises
InstallContentsEarly ==
    /\ pc = "install"
    /\ pdf' = [pdf EXCEPT !.pages[page_no].Contents = Single(encode_latin1(content))]
    /\ IF pdf.pages[page_no].fault = "Stream"
       THEN PageFailed
       ELSE /\ events' = Append(events, <<page_no, "install">>)
            /\ PageDone
            /\ warnings' = warnings
    /\ UNCHANGED <<result, content, original>>
    /\ UNCHANGED processorVars
    /\ UNCHANGED guiVars

\* page.Contents = pikepdf.Stream(self.pdf, modified_content.encode('latin-1')):
\* the assignment is the last statement of the try block
InstallContents ==
    /\ pc = "install"
    /\ IF pdf.pages[page_no].fault = "Stream"
       THEN PageFailed /\ pdf' = pdf
       ELSE /\ pdf' = [pdf EXCEPT !.pages[page_no].Contents =
                               Single(encode_latin1(content))]
            /\ events' = Append(events, <<page_no, "install">>)
            /\ PageDone
            /\ warnings' = warnings
    /\ UNCHANGED <<result, content, original>>
    /\ UNCHANGED processorVars
    /\ UNCHANGED guiVars

\* the document is saved and its bytes are returned
Save ==
    /\ pc = "save"
    /\ result' = "returned"
    /\ pc' = "done"
    /\ UNCHANGED <<pdf, page_no, all_content, events, warnings, content, original>>
    /\ UNCHANGED processorVars
    /\ UNCHANGED guiVars

NextDoc ==
    \/ Open
    \/ AddUnderlay
    \/ CheckContents
    \/ ReadContents
    \/ TransformContent
    \/ InstallContents
    \/ Save

SpecDoc == InitDoc /\ [][NextDoc]_vars

\* process_pdf runs to its end once called
FairSpecDoc == SpecDoc /\ WF_vars(NextDoc)

----------------------------------------------------------------------------
(* Properties of the rewriter *)

ClaudeLuma ==
    RDiv(RAdd(RAdd(RMul(Rat(299, 1000), I(42)), RMul(Rat(587, 1000), I(37))),
              RMul(Rat(114, 1000), I(34))), I(255))

ClaudeWhiteGray == Rewritten /\ theme = "claude" /\ original = "1 g"

\* C6 as stated: with theme claude, gray 1.0 is remapped to luma(42,37,34)/255 and
\* the occurrence `1 g` is rewritten with operand 0.1466.
C6_ClaudeWhiteIs1466 ==
    ClaudeWhiteGray =>
        /\ content = format_4f(ClaudeLuma) \o " g "
        /\ content = "0.1466 g "

\* C6 amended: with theme claude, gray 1.0 is remapped to luma(42,37,34)/255 =
\* 38.153/255, which is 0.1496 to four decimals: `1 g` is rewritten with operand 0.1496.
C6_ClaudeWhiteIs1496 ==
    ClaudeWhiteGray =>
        /\ content = format_4f(ClaudeLuma) \o " g "
        /\ ClaudeLuma = Rat(38153, 255000)
        /\ content = "0.1496 g "

C6_Witness == ClaudeWhiteGray /\ content = "0.1496 g "

Contains(s, p) == \E i \in 1..Len(s) : Slice(s, i, i + Len(p) - 1) = p

\* the non-overlapping matches of one pattern in s, left to right
RECURSIVE SpansOf(_, _, _)
SpansOf(s, i, pat) ==
    IF i > Len(s) THEN {}
    ELSE LET m == MatchAt(s, i, pat)
         IN  IF m.end = 0 THEN SpansOf(s, i + 1, pat)
             ELSE {[start |-> i, end |-> m.end, op |-> pat.op, spaced |-> pat.kind # "rgb"]}
                      \cup SpansOf(s, m.end, pat)

\* the colour-operator occurrences the six patterns recognise in s
Occurrences(s) == UNION {SpansOf(s, 1, Passes[n]) : n \in DOMAIN Passes}

Disjoint(spans) ==
    \A a \in spans, b \in spans : a = b \/ a.end <= b.start \/ b.end <= a.start

\* end (exclusive) of a run of rewritten operands: digits, dots, signs and spaces
RECURSIVE OperandsEnd(_, _)
OperandsEnd(o, i) ==
    IF i <= Len(o) /\ (IsDigit(Char(o, i)) \/ Char(o, i) \in {".", "-", " "})
    THEN OperandsEnd(o, i + 1) ELSE i

\* o is s with each span replaced by operands and the span's own operator token
\* (followed by one space for g, G, k, K), every other character kept in place
RECURSIVE Aligned(_, _, _, _, _)
Aligned(s, o, si, oi, spans) ==
    LET rest == {sp \in spans : sp.start >= si}
    IN  IF rest = {} THEN Slice(s, si, Len(s)) = Slice(o, oi, Len(o))
        ELSE LET sp  == CHOOSE x \in rest : \A y \in rest : x.start <= y.start
                 gap == Slice(s, si, sp.start - 1)
                 q   == oi + Len(gap)
                 e   == OperandsEnd(o, q)
                 t   == e + Len(sp.op)
             IN  /\ Slice(o, oi, q - 1) = gap
                 /\ e > q
                 /\ Slice(o, e, t - 1) = sp.op
                 /\ sp.spaced => Char(o, t) = " "
                 /\ Aligned(s, o, sp.end, IF sp.spaced THEN t + 1 ELSE t, spans)

\* C10: after the six passes the output holds every character of the input outside
\* the recognised colour-operator occurrences, unchanged and in order, each
\* occurrence keeps its operator token, and non-colour operators with their
\* operands (1 0 0 1 0 0 cm, 0.5 w, /GS1 gs) are identical in input and output.
C10_OutsideOccurrencesUnchanged ==
    Rewritten =>
        /\ Disjoint(Occurrences(original))
        /\ Aligned(original, content, 1, 1, Occurrences(original))
        /\ \A p \in NonColourPhrases : Contains(original, p) => Contains(content, p)
        /\ original \in StreamsOf(NonColourPhrases, MaxItems) => content = original

\* a graphics-state operator followed by a fill colour has been rewritten
C10_Witness ==
    /\ Rewritten
    /\ theme = "classic"
    /\ original = "/GS1 gs 0.5 g"
    /\ content = "/GS1 gs 0.7500 g "

\* the occurrences of an operator token in s: the token's letters between
\* whitespace or the ends of the stream
TokenStarts(op, s) ==
    {i \in 1..Len(s) :
        /\ Slice(s, i, i + Len(op) - 1) = op
        /\ (i = 1 \/ IsSpace(Char(s, i - 1)))
        /\ (i + Len(op) > Len(s) \/ IsSpace(Char(s, i + Len(op))))}

CountTokens(op, s) == Cardinality(TokenStarts(op, s))

\* C11: for each of the six families the output of _transform_content_stream holds
\* as many occurrences of the operator token as its input; also when the input is
\* itself an output of the rewriter.
C11_OperatorCountsKept ==
    Rewritten =>
        \A n \in DOMAIN Passes :
            CountTokens(Passes[n].op, content) = CountTokens(Passes[n].op, original)

\* a rewritten stream with a fill gray and a stroke CMYK has been rewritten again
C11_Witness ==
    /\ Rewritten
    /\ hist = <<"rescan">>
    /\ content # original
    /\ CountTokens("g", original) = 1 /\ CountTokens("g", content) = 1
    /\ CountTokens("K", original) = 1 /\ CountTokens("K", content) = 1

\* t split at every single space
RECURSIVE SplitAt(_, _, _)
SplitAt(t, from, i) ==
    IF i > Len(t) THEN <<Slice(t, from, Len(t))>>
    ELSE IF Char(t, i) = " " THEN <<Slice(t, from, i - 1)>> \o SplitAt(t, i + 1, i + 1)
    ELSE SplitAt(t, from, i + 1)

Fields(t) == SplitAt(t, 1, 1)

\* an optional sign, digits, a dot and exactly four digits
Fixed4(t) ==
    LET u == IF Char(t, 1) = "-" THEN Slice(t, 2, Len(t)) ELSE t
    IN  /\ Len(u) >= 6
        /\ Char(u, Len(u) - 4) = "."
        /\ \A i \in 1..Len(u) : i # Len(u) - 4 => IsDigit(Char(u, i))

SignedValue(t) == IF Char(t, 1) = "-" THEN RNeg(float(Slice(t, 2, Len(t)))) ELSE float(t)

\* t is x to four decimal places
Renders(t, x) == Fixed4(t) /\ RLe(RAbs(RSub(SignedValue(t), x)), Rat(1, 20000))

PatternOf(op) == Passes[CHOOSE n \in DOMAIN Passes : Passes[n].op = op]

\* the remapped operands of a matched occurrence
Remapped(pat, groups) ==
    IF pat.kind = "rgb"
    THEN transform_rgb(float(groups[1]), float(groups[2]), float(groups[3]))
    ELSE IF pat.kind = "gray" THEN <<transform_grayscale(float(groups[1]))>>
    ELSE transform_cmyk(float(groups[1]), float(groups[2]), float(groups[3]), float(groups[4]))

\* text is the operands new to four decimals, single spaces, the operator token,
\* and one more space for g, G, k, K
RenderedSpan(text, pat, new) ==
    LET f == Fields(text)
    IN  /\ Len(f) = pat.n + (IF pat.kind = "rgb" THEN 1 ELSE 2)
        /\ \A i \in 1..pat.n : Renders(f[i], new[i])
        /\ f[pat.n + 1] = pat.op
        /\ pat.kind # "rgb" => f[pat.n + 2] = ""

\* every span of s is, at its place in o, the rendering of its remapped operands
RECURSIVE RenderedAll(_, _, _, _, _)
RenderedAll(s, o, si, oi, spans) ==
    LET rest == {sp \in spans : sp.start >= si}
    IN  IF rest = {} THEN TRUE
        ELSE LET sp  == CHOOSE x \in rest : \A y \in rest : x.start <= y.start
                 pat == PatternOf(sp.op)
                 q   == oi + (sp.start - si)
                 e   == OperandsEnd(o, q)
                 t   == e + Len(sp.op) + (IF sp.spaced THEN 1 ELSE 0)
             IN  /\ RenderedSpan(Slice(o, q, t - 1), pat,
                                 Remapped(pat, MatchAt(s, sp.start, pat).groups))
                 /\ RenderedAll(s, o, sp.end, t, spans)

\* C12: every matched occurrence is replaced by its remapped operands with exactly
\* four decimal places, separated by single spaces, followed by the same operator
\* token (and one trailing space for g, G, k, K only); with theme classic
\* `1.0 1.0 1.0 rg 0 0 0 RG` becomes `0.0000 0.0000 0.0000 rg 0.9800 0.9800 0.9800 RG`.
C12_ReplacementFormat ==
    (Rewritten /\ hist = <<>>) =>
        /\ RenderedAll(original, content, 1, 1, Occurrences(original))
        /\ (theme = "classic" /\ original = "1.0 1.0 1.0 rg 0 0 0 RG") =>
               content = "0.0000 0.0000 0.0000 rg 0.9800 0.9800 0.9800 RG"

C12_Witness ==
    /\ Rewritten
    /\ hist = <<>>
    /\ theme = "classic"
    /\ original = "1.0 1.0 1.0 rg 0 0 0 RG"
    /\ content = "0.0000 0.0000 0.0000 rg 0.9800 0.9800 0.9800 RG"

\* C13: an operand with a leading dot or a leading sign is matched as a whole in
\* every family: nothing of it is left in front of the rewritten occurrence and the
\* colour remapped is the value it denotes (`.5 g` remaps gray 0.5, `-0.5 0 0 rg`
\* remaps red -0.5).
C13_OperandsMatchedWhole ==
    (Rewritten /\ hist = <<>>) =>
        /\ original = ".5 g" =>
               content = format_4f(transform_grayscale(Rat(1, 2))) \o " g "
        /\ original = "-0.5 0 0 rg" =>
               LET new == transform_rgb(Rat(-1, 2), I(0), I(0))
               IN  content = format_4f(new[1]) \o " " \o format_4f(new[2]) \o " "
                                 \o format_4f(new[3]) \o " rg"

\* C14: operands followed by operator letters that run on into a longer token
\* (`1 0 0 rgb`, `1 0 0 RGx`, `0 gs`, `0 0 0 1 kx`) are left unchanged, and digits
\* that end a preceding token (the 1 of `/F1 0 0 rg`) are not taken as an operand.
C14_LongerTokensUntouched ==
    (Rewritten /\ hist = <<>>) =>
        (original \in {"1 0 0 rgb", "1 0 0 RGx", "0 gs", "0 0 0 1 kx", "/F1 0 0 rg"} =>
            content = original)

\* a text float() accepts: digits with at most one dot and at least one digit
FloatLiteral(t) ==
    /\ \A i \in 1..Len(t) : IsDigit(Char(t, i)) \/ Char(t, i) = "."
    /\ CountDots(t) <= 1
    /\ \E i \in 1..Len(t) : IsDigit(Char(t, i))

\* every operand text the next substitution hands to float() is a float literal
CallbackParses ==
    pass < Len(Passes) =>
        \A i \in 1..Len(content) :
            LET m == MatchAt(content, i, Passes[pass + 1])
            IN  m.end # 0 => \A n \in DOMAIN m.groups : FloatLiteral(m.groups[n])

\* C15: `x y z rg` is left completely unchanged, no callback of
\* _transform_content_stream raises on the operands it is handed, and a well-formed
\* colour operator before or after `x y z rg` in the same stream is transformed as
\* it is on its own.
C15_MalformedSkipped ==
    /\ CallbackParses
    /\ (Rewritten /\ hist = <<>>) =>
          /\ original = "x y z rg" => content = original
          /\ \A a \in ColourPhrases :
                /\ transform_content_stream(a) # a
                /\ original = a \o " x y z rg" =>
                       content = transform_content_stream(a) \o " x y z rg"
                /\ original = "x y z rg " \o a =>
                       content = "x y z rg " \o transform_content_stream(a)

C15_Witness ==
    /\ Rewritten
    /\ hist = <<>>
    /\ theme = "classic"
    /\ original = "x y z rg 0.5 g"
    /\ content = "x y z rg 0.7500 g "

\* C16: on a stream of well-formed colour occurrences (operands in [0,1]) and
\* non-colour tokens, the six substitutions applied in any order give the output
\* of the fixed order rg, RG, g, G, k, K; and a substitution still to run finds as
\* many matches as it finds in the input, whatever has run before it.
C16_OrderIrrelevant ==
    /\ applied = DOMAIN Passes => content = transform_content_stream(original)
    /\ \A n \in DOMAIN Passes \ applied :
          Cardinality(SpansOf(content, 1, Passes[n]))
              = Cardinality(SpansOf(original, 1, Passes[n]))

\* the stroke CMYK substitution has run before the fill RGB one, which then ran last
C16_Witness ==
    /\ applied = DOMAIN Passes
    /\ theme = "classic"
    /\ original = "1.0 1.0 1.0 rg 0 0.5 1 0 K"
    /\ content = "0.0000 0.0000 0.0000 rg 0.0000 0.4500 0.9000 -0.2500 K "

----------------------------------------------------------------------------
(* Properties of the processor and of process_pdf *)

ListedBackground(name) ==
    CASE name = "classic"  -> [r |-> 0,  g |-> 0,  b |-> 0]
      [] name = "claude"   -> [r |-> 42, g |-> 37, b |-> 34]
      [] name = "chatgpt"  -> [r |-> 52, g |-> 53, b |-> 65]
      [] name = "sepia"    -> [r |-> 40, g |-> 35, b |-> 25]
      [] name = "midnight" -> [r |-> 25, g |-> 30, b |-> 45]
      [] name = "forest"   -> [r |-> 25, g |-> 35, b |-> 30]
      [] OTHER             -> [r |-> 0,  g |-> 0,  b |-> 0]

HasEvent(p, name) == \E i \in DOMAIN events : events[i] = <<p, name>>

EventNamesOf(p) == {events[i][2] : i \in {j \in DOMAIN events : events[j][1] = p}}

RECURSIVE JoinBytes(_)
JoinBytes(fragments) ==
    IF fragments = <<>> THEN <<>>
    ELSE IF Len(fragments) = 1 THEN fragments[1]
    ELSE fragments[1] \o <<10>> \o JoinBytes(Tail(fragments))

JustInstalled(p) == events # <<>> /\ events[Len(events)] = <<p, "install">>

\* `0.9800 0.9800 0.9800 rg`
RewrittenBlackFill ==
    <<48, 46, 57, 56, 48, 48, 32, 48, 46, 57, 56, 48, 48, 32, 48, 46, 57, 56, 48, 48,
      32, 114, 103>>

\* C19: the text handed to the rewriter is the fragments of the page in their
\* order joined by single newlines (operands ending one fragment and the operator
\* starting the next are rewritten), after processing the page holds exactly one
\* content stream, the rewritten text, and bytes outside colour occurrences,
\* values above 127 included, are the bytes of the input.
C19_FragmentsJoined ==
    /\ pc = "install" =>
          LET data == pdf.pages[page_no].Contents.data
          IN  /\ original = decode_latin1(JoinBytes(data))
              /\ content = transform_content_stream(original)
              /\ Occurrences(original) = {} => encode_latin1(content) = JoinBytes(data)
              /\ (data # <<>> /\ data[1] = FragmentHighBytes) =>
                    SubSeq(encode_latin1(content), 1, Len(FragmentHighBytes) + 1)
                        = FragmentHighBytes \o <<10>>
              /\ data = <<FragmentOperands, FragmentOperator>> =>
                    encode_latin1(content) = RewrittenBlackFill
    /\ \A p \in DOMAIN pdf.pages :
          /\ HasEvent(p, "install") =>
                /\ pdf.pages[p].Contents.kind = "stream"
                /\ Len(pdf.pages[p].Contents.data) = 1
          /\ JustInstalled(p) =>
                /\ decode_latin1(pdf.pages[p].Contents.data[1]) = content
                /\ Len(pdf.pages[p].Contents.data[1]) = Len(content)

\* the page of fragments `0 0 0` and `rg` holds the one rewritten stream
C19_Witness ==
    /\ JustInstalled(1)
    /\ original = "0 0 0\nrg"
    /\ pdf.pages[1].Contents = Single(RewrittenBlackFill)

PagesOfEvents == {events[i][1] : i \in DOMAIN events}

FaultyPages == {p \in DOMAIN pdf.pages : pdf.pages[p].fault # "none"}

\* C20: on bytes that are no PDF process_pdf raises to the caller and no page is
\* processed; on a valid document every page is attempted in document order, a
\* page that fails is logged and the pages after it are processed, and process_pdf
\* returns a document.
PagesInOrder ==
    /\ ~pdf.valid => (events = <<>> /\ warnings = <<>> /\ result # "returned")
    /\ pdf.valid => result # "raised"
    /\ \A i \in DOMAIN events : \A j \in DOMAIN events :
          i < j => events[i][1] <= events[j][1]
    /\ pc = "done" => result = (IF pdf.valid THEN "returned" ELSE "raised")
    /\ result = "returned" =>
          /\ PagesOfEvents = DOMAIN pdf.pages
          /\ {warnings[i] : i \in DOMAIN warnings} = FaultyPages
          /\ Len(warnings) = Cardinality(FaultyPages)
          /\ \A p \in DOMAIN pdf.pages \ FaultyPages : HasEvent(p, "underlay")

C20_PagesIsolated == []PagesInOrder /\ <>(pc = "done")

\* the first page failed and the second was rewritten
C20_Witness ==
    /\ result = "returned"
    /\ warnings = <<1>>
    /\ HasEvent(1, "warning")
    /\ HasEvent(2, "install")

\* the fragments found in the input documents
InputFragments ==
    {FragmentGray, FragmentOperands, FragmentOperator, FragmentBT, FragmentHighBytes}

\* the page holds the content it was opened with: its fragments are input
\* fragments, and no single rewritten stream stands in their place
HoldsOriginalContent(p) ==
    LET c == pdf.pages[p].Contents
    IN  /\ \A i \in DOMAIN c.data : c.data[i] \in InputFragments
        /\ \E shape \in PageShapes :
              shape.Contents = c /\ shape.fault = pdf.pages[p].fault

\* a step that replaces the content of page p is the last step of processing p:
\* underlay, read and rewrite came before it and nothing on the page raised
ReplacedAsLastStep(p) ==
    pdf'.pages[p].Contents # pdf.pages[p].Contents =>
        /\ pc = "install" /\ page_no = p
        /\ ~HasEvent(p, "warning")
        /\ \E i, j, k \in DOMAIN events :
              /\ i < j /\ j < k
              /\ events[i] = <<p, "underlay">>
              /\ events[j] = <<p, "read">>
              /\ events[k] = <<p, "rewrite">>
        /\ events' = Append(events, <<p, "install">>)
        /\ warnings' = warnings
        /\ pdf'.pages[p].Contents =
              Single(encode_latin1(transform_content_stream(
                  decode_latin1(JoinBytes(pdf.pages[p].Contents.data)))))

FailedPageKeepsContent ==
    \A p \in DOMAIN pdf.pages :
        /\ HasEvent(p, "warning") =>
              /\ ~HasEvent(p, "install")
              /\ HoldsOriginalContent(p)
              /\ pdf.pages[p].fault # "none"
        /\ ~HasEvent(p, "install") => HoldsOriginalContent(p)

\* C21: a page whose processing raised at any step keeps the content stream it
\* had (with the underlay or without it); the rewritten stream is installed only
\* by the last step, after underlay, reading and rewriting succeeded.
C21_FailedPageUntouched ==
    /\ []FailedPageKeepsContent
    /\ [][\A p \in DOMAIN pdf.pages : ReplacedAsLastStep(p)]_vars

\* a page that failed when the new stream was created, after the underlay was
\* added and the content was rewritten, and a page that failed while reading
C21_Witness ==
    /\ result = "returned"
    /\ Len(pdf.pages) = 2
    /\ pdf.pages[1].fault = "Stream"
    /\ EventNamesOf(1) = {"underlay", "read", "rewrite", "warning"}
    /\ pdf.pages[1].underlay # <<>>
    /\ pdf.pages[1].Contents = Array(<<FragmentHighBytes, FragmentGray>>)
    /\ pdf.pages[2].fault = "read_bytes"
    /\ pdf.pages[2].Contents = Array(<<FragmentOperands, FragmentOperator>>)
    /\ warnings = <<1, 2>>

----------------------------------------------------------------------------
(* Batch converter (batch_converter_gui.py).  The disk is a function from   *)
(* the paths of the files that exist to their modification time and data;  *)
(* paths are strings with "/" as separator.                                 *)

MaxRuns == 2

\* modification times of the files found on the disk
Mtimes == 1..2

ReadyJobs == "Y:/Ready Jobs"

\* the folders chosen in the folder dialog, and the paths typed in Settings
Folders == {ReadyJobs}
QuickScanPaths == {ReadyJobs, "Y:/Missing"}

\* the order in which os.walk lists the files that can exist
Listing ==
    <<"Y:/Ready Jobs/loose.pdf",
      "Y:/Ready Jobs/DARK MODE/loose.pdf",
      "Y:/Ready Jobs/JobA/notes.txt",
      "Y:/Ready Jobs/JobA/CNC/c.pdf",
      "Y:/Ready Jobs/JobA/DARK MODE/Sub/b.PDF",
      "Y:/Ready Jobs/JobA/Sub/b.PDF">>

UpperCase == "ABCDEFGHIJKLMNOPQRSTUVWXYZ"
LowerCase == "abcdefghijklmnopqrstuvwxyz"

\* str.lower
RECURSIVE lower(_)
lower(t) ==
    IF t = "" THEN ""
    ELSE LET c == Char(t, 1)
             k == {i \in 1..26 : Char(UpperCase, i) = c}
         IN  (IF k = {} THEN c ELSE Char(LowerCase, CHOOSE i \in k : TRUE))
                 \o lower(SubSeq(t, 2, Len(t)))

\* str.endswith
endswith(t, suffix) ==
    Len(suffix) <= Len(t) /\ SubSeq(t, Len(t) - Len(suffix) + 1, Len(t)) = suffix

\* os.path.join
path_join(a, b) == a \o "/" \o b

\* the positions of the separators of a path
Separators(path) == {i \in 1..Len(path) : Char(path, i) = "/"}

Greatest(S) == CHOOSE i \in S : \A j \in S : j <= i
Least(S) == CHOOSE i \in S : \A j \in S : i <= j

\* the modification time of a file written by a run: later than every source
Now == Greatest(Mtimes) + 1

\* os.path.dirname and os.path.basename
dirname(path) == SubSeq(path, 1, Greatest(Separators(path)) - 1)
basename(path) == SubSeq(path, Greatest(Separators(path)) + 1, Len(path))

\* path lies below folder
Below(path, folder) ==
    Len(path) > Len(folder) + 1 /\ SubSeq(path, 1, Len(folder) + 1) = folder \o "/"

\* os.path.relpath(path, start) for a path below start
relpath(path, start) == SubSeq(path, Len(start) + 2, Len(path))

\* a directory and the directories above it
Ancestors(d) == {d} \cup {SubSeq(d, 1, i - 1) : i \in Separators(d)}

SkippedForCncOnly(root) == Contains(root, "CNC")

\* if "DARK MODE" in root or "CNC" in root: continue
Skipped(root) == Contains(root, "DARK MODE") \/ Contains(root, "CNC")

\* for root, dirs, files in os.walk(folder): of every listed file the directory
\* and the name, whether the directory is skipped, and file.lower().endswith('.pdf')
Walk ==
    [n \in DOMAIN Listing |->
        LET root == dirname(Listing[n])
            file == basename(Listing[n])
        IN  [root |-> root, file |-> file, skipped |-> Skipped(root),
             is_pdf |-> endswith(lower(file), ".pdf")]]

\* the folders of the disk
AllFolders == UNION {Ancestors(Walk[n].root) : n \in DOMAIN Listing} \ {"Y:"}

\* the listed files that a walk from the folder comes to
WalkFrom == [folder \in AllFolders |-> {n \in DOMAIN Listing : Below(Listing[n], folder)}]

\* count_pdfs
count_pdfs(folder, disk) ==
    Cardinality({n \in WalkFrom[folder] :
                    /\ Listing[n] \in DOMAIN disk
                    /\ ~Walk[n].skipped
                    /\ Walk[n].is_pdf})

\* the output path of a source found below the selected folder
output_path_of(source_path, folder) ==
    LET rel_to_parent == relpath(source_path, folder)
    IN  IF Separators(rel_to_parent) # {}
        THEN LET job_folder == SubSeq(rel_to_parent, 1, Least(Separators(rel_to_parent)) - 1)
                 job_folder_path == path_join(folder, job_folder)
                 output_folder == path_join(job_folder_path, "DARK MODE")
                 rel_within_job == relpath(source_path, job_folder_path)
             IN  path_join(output_folder, rel_within_job)
        ELSE path_join(path_join(folder, "DARK MODE"), basename(source_path))

\* the output path of every listed file a walk from the folder comes to
OutputPaths ==
    [folder \in AllFolders |->
        [n \in WalkFrom[folder] |-> output_path_of(Listing[n], folder)]]

\* the discovery loop of convert_all_pdfs over the first n listed files
RECURSIVE pdf_files_upto(_, _, _)
pdf_files_upto(folder, disk, n) ==
    IF n = 0 THEN <<>>
    ELSE LET before == pdf_files_upto(folder, disk, n - 1)
         IN  IF /\ Listing[n] \in DOMAIN disk
                /\ n \in WalkFrom[folder]
                /\ ~Walk[n].skipped
                /\ Walk[n].is_pdf
             THEN Append(before, <<Listing[n], OutputPaths[folder][n]>>)
             ELSE before

discover(folder, disk) == pdf_files_upto(folder, disk, Len(Listing))

File(mtime, data) == [mtime |-> mtime, data |-> data]

\* the function with the given <<path, file>> pairs
Disk(entries) ==
    [path \in {e[1] : e \in entries} |-> (CHOOSE e \in entries : e[1] = path)[2]]

\* the job folders as found: sources without a dark copy, with a copy of the
\* same time, with an older copy and with a newer one, a source that is no PDF,
\* and job folders with nothing to convert
InitialDisks ==
    {Disk({<<Listing[3], File(1, "text")>>, <<Listing[4], File(1, "pdf")>>} \cup found) :
        found \in {{<<Listing[1], File(1, "pdf")>>,
                    <<Listing[6], File(1, "pdf")>>, <<Listing[5], File(1, "dark")>>},
                   {<<Listing[1], File(2, "pdf")>>, <<Listing[2], File(1, "dark")>>,
                    <<Listing[6], File(1, "pdf")>>, <<Listing[5], File(2, "dark")>>},
                   {<<Listing[1], File(1, "junk")>>,
                    <<Listing[6], File(1, "pdf")>>},
                   {}}}

DirsOf(disk) == UNION {Ancestors(dirname(path)) : path \in DOMAIN disk}

InitBatch ==
    /\ files \in InitialDisks
    /\ dirs = DirsOf(files)
    /\ selected_folder = "None"
    /\ quick_scan_path = ReadyJobs
    /\ dry_run_var = FALSE
    /\ is_converting = FALSE
    /\ total_files = 0
    /\ processed_files = 0
    /\ converted_count = 0
    /\ skipped_count = 0
    /\ convert_btn = "disabled"
    /\ browse_btn = "normal"
    /\ cancel_btn = "disabled"
    /\ threads = <<>>
    /\ pdf_count = <<>>
    /\ theme = "classic"
    /\ bg_color = themes_get("classic")
    /\ space = "none"
    /\ val = <<>>
    /\ orig = [space |-> "none", val |-> <<>>]
    /\ hist = <<>>
    /\ content = ""
    /\ original = ""
    /\ pass = 0
    /\ applied = {}
    /\ NoDocument

engineVars == <<theme, bg_color, space, val, orig, hist, content, original, pass,
                applied, pdf, page_no, pc, all_content, events, warnings, result>>

\* the worker threads that have not returned
Running == {w \in DOMAIN threads : threads[w].pc # "exit"}

\* threading.Thread(target=self.convert_all_pdfs, daemon=True).start(); the
\* record of a thread keeps what was logged last, the number of files that raised,
\* the state of the checkbox when it was started, and whether Cancel was clicked
\* or another thread was alive during its life
Thread ==
    [pc |-> "discover", pdf_files |-> <<>>, i |-> 0, dry_run |-> FALSE, early |-> FALSE,
     logged |-> <<>>, errors |-> 0, checked_at_start |-> dry_run_var,
     cancel_seen |-> FALSE, overlapped |-> Running # {}]

\* the thread has returned from convert_all_pdfs
Returned == [Thread EXCEPT !.pc = "exit", !.checked_at_start = FALSE, !.overlapped = FALSE]

\* start_conversion with a folder selected
Started ==
    /\ is_converting' = TRUE
    /\ convert_btn' = "disabled"
    /\ browse_btn' = "disabled"
    /\ cancel_btn' = "normal"
    /\ threads' = Append([w \in DOMAIN threads |->
                              IF w \in Running
                              THEN [threads[w] EXCEPT !.overlapped = TRUE]
                              ELSE threads[w]],
                          Thread)

\* Browse...: the dialog returns a folder, or "" when it is dismissed
browse_folder ==
    /\ browse_btn = "normal"
    /\ \E folder \in Folders \cup {""} :
          IF folder # ""
          THEN /\ selected_folder' = folder
               /\ convert_btn' = "normal"
               /\ pdf_count' = <<folder, count_pdfs(folder, files)>>
          ELSE UNCHANGED <<selected_folder, convert_btn, pdf_count>>
    /\ UNCHANGED <<quick_scan_path, dry_run_var, is_converting, browse_btn, cancel_btn,
                   threads>>
    /\ UNCHANGED <<diskVars, counterVars, engineVars>>

\* Quick Scan Ready Jobs: the button is never disabled
quick_scan ==
    /\ Len(threads) < MaxRuns
    /\ IF quick_scan_path \in dirs
       THEN /\ selected_folder' = quick_scan_path
            /\ pdf_count' = <<quick_scan_path, count_pdfs(quick_scan_path, files)>>
            /\ Started
       ELSE UNCHANGED <<selected_folder, pdf_count, is_converting, buttonVars, threads>>
    /\ UNCHANGED <<quick_scan_path, dry_run_var>>
    /\ UNCHANGED <<diskVars, counterVars, engineVars>>

\* Settings...: Save with a path typed or browsed
save_settings ==
    /\ \E new_path \in QuickScanPaths : quick_scan_path' = new_path
    /\ UNCHANGED <<selected_folder, dry_run_var, is_converting, buttonVars, threads,
                   pdf_count>>
    /\ UNCHANGED <<diskVars, counterVars, engineVars>>

\* the Dry Run checkbox is clicked
toggle_dry_run ==
    /\ dry_run_var' = ~dry_run_var
    /\ UNCHANGED <<selected_folder, quick_scan_path, is_converting, buttonVars, threads,
                   pdf_count>>
    /\ UNCHANGED <<diskVars, counterVars, engineVars>>

\* Convert All PDFs
start_conversion ==
    /\ convert_btn = "normal"
    /\ Len(threads) < MaxRuns
    /\ IF selected_folder = "None"
       THEN UNCHANGED <<is_converting, buttonVars, threads>>
       ELSE Started
    /\ UNCHANGED <<selected_folder, quick_scan_path, dry_run_var, pdf_count>>
    /\ UNCHANGED <<diskVars, counterVars, engineVars>>

\* Cancel
cancel_conversion ==
    /\ cancel_btn = "normal"
    /\ is_converting' = FALSE
    /\ threads' = [w \in DOMAIN threads |->
                       IF w \in Running
                       THEN [threads[w] EXCEPT !.cancel_seen = TRUE]
                       ELSE threads[w]]
    /\ UNCHANGED <<selected_folder, quick_scan_path, dry_run_var, buttonVars, pdf_count>>
    /\ UNCHANGED <<diskVars, counterVars, engineVars>>

uiVars == <<selected_folder, quick_scan_path, dry_run_var, pdf_count>>

Logged(w, entry) == [threads[w] EXCEPT !.logged = entry]

\* convert_all_pdfs up to the loop: discovery, counters, dry run flag, processor
Discover(w) ==
    /\ threads[w].pc = "discover"
    /\ LET pdf_files == discover(selected_folder, files)
       IN  /\ total_files' = Len(pdf_files)
           /\ processed_files' = 0
           /\ converted_count' = 0
           /\ skipped_count' = 0
           /\ threads' =
                 IF Len(pdf_files) = 0
                 THEN [threads EXCEPT ![w] =
                          [Logged(w, <<"No PDF files found!">>) EXCEPT
                              !.pc = "reset", !.early = TRUE]]
                 ELSE [threads EXCEPT ![w] =
                          [Logged(w, <<"mode", dry_run_var>>) EXCEPT
                              !.pc = "loop", !.pdf_files = pdf_files, !.i = 1,
                              !.dry_run = dry_run_var]]
    /\ UNCHANGED <<is_converting, buttonVars, uiVars>>
    /\ UNCHANGED <<diskVars, engineVars>>

\* the for loop takes the next pair or ends
AfterFile(t) == IF t.i < Len(t.pdf_files) THEN "loop" ELSE "done"

\* what the conversion of a file can come to: the read raises or process_pdf
\* raises (bytes that are no PDF) or opening the output raises, all of them before
\* anything is written; the write raises; or the output is saved
Outcomes(data) ==
    {"ERROR"} \cup (IF data = "junk" THEN {} ELSE {"ERROR in write", "saved"})

\* the exception of the inner try block is logged and the loop goes on
AfterRaiseLeaves(t) == "reset"

AfterRaise(t) == AfterFile(t)

\* a source is left alone when its output exists and is not older than it
up_to_date_when_newer(disk, pdf_path, output_path) ==
    /\ output_path \in DOMAIN disk
    /\ disk[pdf_path].mtime < disk[output_path].mtime

\* not should_convert: os.path.exists(output_path) and source_mtime <= output_mtime
up_to_date(disk, pdf_path, output_path) ==
    /\ output_path \in DOMAIN disk
    /\ disk[pdf_path].mtime <= disk[output_path].mtime

\* if not self.is_converting: ... break
Cancelled(w) ==
    /\ threads' = [threads EXCEPT ![w] =
                      [Logged(w, <<"Conversion cancelled by user.">>) EXCEPT !.pc = "done"]]
    /\ UNCHANGED <<diskVars, counterVars>>

\* os.makedirs raises: the exception leaves the loop for the outer handler
Fatal(w, pdf_path) ==
    /\ threads' = [threads EXCEPT ![w] =
                      [Logged(w, <<"FATAL ERROR", pdf_path>>) EXCEPT !.pc = "reset"]]
    /\ UNCHANGED <<diskVars, counterVars>>

\* the file is up to date
Skip(w, pdf_path) ==
    /\ skipped_count' = skipped_count + 1
    /\ processed_files' = processed_files + 1
    /\ files' = files
    /\ UNCHANGED <<total_files, converted_count>>
    /\ threads' = [threads EXCEPT ![w] =
                      [Logged(w, <<"skip", pdf_path>>) EXCEPT
                          !.pc = AfterFile(threads[w]), !.i = @ + 1]]

\* the inner try block; an output opened for writing stays on the disk when the
\* write raises
Convert(w, pdf_path, output_path) ==
    IF threads[w].dry_run
    THEN /\ files' = files
         /\ converted_count' = converted_count + 1
         /\ processed_files' = processed_files + 1
         /\ UNCHANGED <<total_files, skipped_count>>
         /\ threads' = [threads EXCEPT ![w] =
                           [Logged(w, <<"would convert", pdf_path>>) EXCEPT
                               !.pc = AfterFile(threads[w]), !.i = @ + 1]]
    ELSE \E outcome \in Outcomes(files[pdf_path].data) :
            /\ files' =
                  IF outcome \in {"ERROR in write", "saved"}
                  THEN [path \in DOMAIN files \cup {output_path} |->
                           IF path = output_path
                           THEN File(Now, IF outcome = "saved" THEN "dark" ELSE "partial")
                           ELSE files[path]]
                  ELSE files
            /\ converted_count' =
                  IF outcome = "saved" THEN converted_count + 1 ELSE converted_count
            /\ processed_files' =
                  IF outcome = "saved" THEN processed_files + 1 ELSE processed_files
            /\ UNCHANGED <<total_files, skipped_count>>
            /\ threads' = [threads EXCEPT ![w] =
                              [Logged(w, <<outcome, pdf_path>>) EXCEPT
                                  !.pc = IF outcome = "saved"
                                         THEN AfterFile(threads[w])
                                         ELSE AfterRaise(threads[w]),
                                  !.i = @ + 1,
                                  !.errors = IF outcome = "saved" THEN @ ELSE @ + 1]]

\* one iteration of the loop: cancellation check, os.makedirs (it may raise where
\* it has to create), the comparison of modification times, skip or conversion
ProcessFile(w) ==
    /\ threads[w].pc = "loop"
    /\ LET t == threads[w]
           pdf_path == t.pdf_files[t.i][1]
           output_path == t.pdf_files[t.i][2]
           folder == dirname(output_path)
       IN  IF ~is_converting
           THEN Cancelled(w)
           ELSE \E made \in (IF t.dry_run \/ folder \in dirs THEN {TRUE} ELSE BOOLEAN) :
                   IF ~made
                   THEN Fatal(w, pdf_path)
                   ELSE /\ dirs' = IF t.dry_run THEN dirs ELSE dirs \cup Ancestors(folder)
                        /\ IF up_to_date(files, pdf_path, output_path)
                           THEN Skip(w, pdf_path)
                           ELSE Convert(w, pdf_path, output_path)
    /\ UNCHANGED <<is_converting, buttonVars, uiVars, engineVars>>

\* # Done: the summary and its dialog, shown when is_converting is still set
Done(w) ==
    /\ threads[w].pc = "done"
    /\ threads' = [threads EXCEPT ![w] =
                      [(IF is_converting
                        THEN Logged(w, <<"summary", total_files, converted_count,
                                         skipped_count>>)
                        ELSE threads[w]) EXCEPT !.pc = "reset"]]
    /\ UNCHANGED <<is_converting, buttonVars, uiVars>>
    /\ UNCHANGED <<diskVars, counterVars, engineVars>>

\* reset_ui, first statement
ResetFlag(w) ==
    /\ threads[w].pc = "reset"
    /\ is_converting' = FALSE
    /\ threads' = [threads EXCEPT ![w].pc = "buttons"]
    /\ UNCHANGED <<buttonVars, uiVars>>
    /\ UNCHANGED <<diskVars, counterVars, engineVars>>

\* reset_ui, the three button states; after the call made when no PDF was found
\* the finally block calls reset_ui again
ResetButtons(w) ==
    /\ threads[w].pc = "buttons"
    /\ convert_btn' = "normal"
    /\ browse_btn' = "normal"
    /\ cancel_btn' = "disabled"
    /\ threads' = [threads EXCEPT ![w] =
                      IF threads[w].early
                      THEN [threads[w] EXCEPT !.pc = "reset", !.early = FALSE]
                      ELSE Returned]
    /\ UNCHANGED <<is_converting, uiVars>>
    /\ UNCHANGED <<diskVars, counterVars, engineVars>>

convert_all_pdfs(w) ==
    \/ Discover(w)
    \/ ProcessFile(w)
    \/ Done(w)
    \/ ResetFlag(w)
    \/ ResetButtons(w)

Worker == \E w \in DOMAIN threads : convert_all_pdfs(w)

NextBatch ==
    \/ browse_folder
    \/ quick_scan
    \/ save_settings
    \/ toggle_dry_run
    \/ start_conversion
    \/ cancel_conversion
    \/ Worker

SpecBatch == InitBatch /\ [][NextBatch]_vars

\* a started worker thread is scheduled, and its dialogs are dismissed
FairSpecBatch == SpecBatch /\ WF_vars(Worker)

----------------------------------------------------------------------------
(* Properties of the batch converter *)

\* the worker thread w takes a step
Steps(w) ==
    w \in DOMAIN threads /\ (threads'[w].pc # threads[w].pc \/ threads'[w].i # threads[w].i)

\* C22: a run started while Dry Run was ticked creates no directory and writes or
\* changes no file, whatever is done to the checkbox while the run is in progress.
C22_DryRunWritesNothing ==
    [][\A w \in DOMAIN threads :
          (threads[w].checked_at_start /\ Steps(w)) => (files' = files /\ dirs' = dirs)]_vars

\* a run that has read the checkbox as ticked creates no directory and writes or
\* changes no file
DryRunAsReadWritesNothing ==
    [][\A w \in DOMAIN threads :
          (threads[w].dry_run /\ Steps(w)) => (files' = files /\ dirs' = dirs)]_vars

\* the file at the path is the given one
Holds(path, file) == path \in DOMAIN files /\ files[path] = file

\* the pair the thread is at in its loop
Pair(w) == threads[w].pdf_files[threads[w].i]

\* the thread examines a file: it is in the loop, no cancellation was requested,
\* and os.makedirs did not raise
Examines(w) ==
    /\ Steps(w)
    /\ threads[w].pc = "loop"
    /\ is_converting
    /\ threads'[w].logged[1] # "FATAL ERROR"

\* C23: a discovered source is converted if and only if its output does not exist
\* or the source is strictly newer than the output; otherwise it is counted as
\* skipped and its output is not touched.
C23_ConvertedIffNewer ==
    [][\A w \in DOMAIN threads :
          Examines(w) =>
              LET pdf_path == Pair(w)[1]
                  output_path == Pair(w)[2]
                  said == threads'[w].logged
              IN  IF \/ output_path \notin DOMAIN files
                     \/ files[pdf_path].mtime > files[output_path].mtime
                  THEN /\ skipped_count' = skipped_count
                       /\ said[2] = pdf_path
                       /\ IF threads[w].dry_run
                          THEN said[1] = "would convert" /\ files' = files
                          ELSE /\ said[1] \in {"saved", "ERROR", "ERROR in write"}
                               /\ said[1] = "saved" =>
                                     /\ files'[output_path] = File(Now, "dark")
                                     /\ converted_count' = converted_count + 1
                  ELSE /\ said = <<"skip", pdf_path>>
                       /\ skipped_count' = skipped_count + 1
                       /\ converted_count' = converted_count
                       /\ files' = files]_vars

\* loose.pdf had no dark copy and was converted; b.PDF, as old as its copy, was
\* skipped and the copy is the one found
C23_Witness ==
    /\ threads # <<>>
    /\ threads[1].logged = <<"skip", Listing[6]>>
    /\ Holds(Listing[6], File(1, "pdf"))
    /\ Holds(Listing[5], File(1, "dark"))
    /\ Holds(Listing[2], File(Now, "dark"))
    /\ converted_count = 1
    /\ skipped_count = 1

\* C24: once Cancel was clicked while a worker is running, that worker, when it
\* has discovered its files, starts no further file and shows no summary but
\* resets the window, whatever else is clicked (Quick Scan included).
C24_CancelStopsWorker ==
    [][\A w \in DOMAIN threads :
          (threads[w].cancel_seen /\ threads[w].pc # "discover" /\ Steps(w)) =>
              \/ threads'[w] = Returned
              \/ /\ threads'[w].i = threads[w].i
                 /\ threads'[w].logged \in {threads[w].logged,
                                            <<"Conversion cancelled by user.">>}]_vars

\* the same of a worker during whose life start_conversion did not run
CancelStopsLoneWorker ==
    [][\A w \in DOMAIN threads :
          (threads[w].cancel_seen /\ ~threads[w].overlapped /\ threads[w].pc # "discover"
              /\ Steps(w)) =>
              \/ threads'[w] = Returned
              \/ /\ threads'[w].i = threads[w].i
                 /\ threads'[w].logged \in {threads[w].logged,
                                            <<"Conversion cancelled by user.">>}]_vars

\* C25: when reset_ui has run, is_converting is False, Convert and Browse are
\* enabled and Cancel is disabled.
C25_ResetLeavesIdle ==
    [][\A w \in DOMAIN threads :
          (threads[w].pc = "buttons" /\ Steps(w)) =>
              /\ ~is_converting'
              /\ convert_btn' = "normal"
              /\ browse_btn' = "normal"
              /\ cancel_btn' = "disabled"]_vars

\* reset_ui of a worker that is the only one alive leaves the window idle
ResetOfLoneWorkerLeavesIdle ==
    [][\A w \in DOMAIN threads :
          (threads[w].pc = "buttons" /\ Steps(w) /\ Running = {w}) =>
              /\ ~is_converting'
              /\ convert_btn' = "normal"
              /\ browse_btn' = "normal"
              /\ cancel_btn' = "disabled"]_vars

\* every started conversion reaches the end of reset_ui
EveryRunReturns ==
    /\ (Len(threads) >= 1) ~> (Len(threads) >= 1 /\ threads[1].pc = "exit")
    /\ (Len(threads) >= 2) ~> (Len(threads) >= 2 /\ threads[2].pc = "exit")

\* the listed files below a directory whose path contains DARK MODE or CNC
Excluded ==
    {Listing[n] : n \in {k \in DOMAIN Listing :
                            \/ Contains(dirname(Listing[k]), "DARK MODE")
                            \/ Contains(dirname(Listing[k]), "CNC")}}

\* JobName/DARK MODE/<path within job>, and <folder>/DARK MODE/<name> for a file
\* of the selected folder itself
DarkModeCopies ==
    [folder \in AllFolders |->
        UNION {{<<Listing[n], path_join(path_join(job, "DARK MODE"),
                                        relpath(Listing[n], job))>> :
                   n \in {k \in DOMAIN Listing :
                             /\ Below(Listing[k], job)
                             /\ (dirname(Listing[k]) = folder) <=> (job = folder)}} :
               job \in {j \in AllFolders : j = folder \/ dirname(j) = folder}}]

\* the paths of dark copies that lie below a directory named DARK MODE
BelowDarkMode ==
    {pair[2] : pair \in {c \in UNION {DarkModeCopies[folder] : folder \in AllFolders} :
                            Contains(dirname(c[2]), "/DARK MODE")}}

\* written by a run of the converter
Written(path) == path \in DOMAIN files /\ files[path].mtime = Now

\* C26: no file below a directory whose path contains "DARK MODE" or "CNC" is
\* counted or discovered, every output path lies below a "DARK MODE" directory
\* of the job folder, no file written by a run is discovered as a source from
\* any folder, and count_pdfs gives the number of files that are discovered.
C26_OutputsNeverSources ==
    /\ \A path \in DOMAIN files : \E k \in DOMAIN Listing : Listing[k] = path
    /\ \A folder \in AllFolders :
          LET found == discover(folder, files)
          IN  /\ count_pdfs(folder, files) = Len(found)
              /\ \A k \in DOMAIN found :
                    /\ found[k][1] \notin Excluded
                    /\ found[k][2] \in BelowDarkMode
                    /\ ~Written(found[k][1])
                    /\ found[k][1] \in DOMAIN files
                    /\ found[k] \in DarkModeCopies[folder]
    /\ \A path \in DOMAIN files : Written(path) => path \in Excluded
    /\ \A w \in DOMAIN threads : \A k \in DOMAIN threads[w].pdf_files :
          /\ threads[w].pdf_files[k][1] \notin Excluded
          /\ ~Written(threads[w].pdf_files[k][1])
    /\ pdf_count # <<>> => pdf_count[2] = Len(discover(pdf_count[1], files))
    /\ \A w \in DOMAIN threads :
          (threads[w].pc = "loop" /\ pdf_count # <<>>) =>
              Len(threads[w].pdf_files) = pdf_count[2]

\* the dark copy of loose.pdf was written by a first run, the one of b.PDF was
\* there before, and a second run has discovered the two sources and no more
C26_Witness ==
    /\ Written(Listing[2])
    /\ Listing[5] \in DOMAIN files
    /\ Len(threads) = 2
    /\ threads[2].pc = "loop"
    /\ Len(threads[2].pdf_files) = 2
    /\ pdf_count = <<ReadyJobs, 2>>

\* the worker ran with no Cancel click and no other conversion started meanwhile
Undisturbed(w) == ~threads[w].cancel_seen /\ ~threads[w].overlapped

\* once the loop is left every file was examined, and the summary is shown
BatchRunsToItsEnd ==
    \A w \in DOMAIN threads :
        (Undisturbed(w) /\ threads[w].pdf_files # <<>>
            /\ threads[w].logged[1] # "FATAL ERROR") =>
            /\ threads[w].pc = "done" => threads[w].i = Len(threads[w].pdf_files) + 1
            /\ threads[w].pc \in {"reset", "buttons"} =>
                  /\ threads[w].logged[1] = "summary"
                  /\ threads[w].i = Len(threads[w].pdf_files) + 1
            /\ threads[w].errors <= threads[w].i - 1

\* a conversion that raised is logged, counted nowhere, and followed by the next
\* file of the list
RaiseGoesOn(w) ==
    (Examines(w) /\ threads'[w].logged[1] \in {"ERROR", "ERROR in write"}) =>
        /\ threads'[w].logged[2] = Pair(w)[1]
        /\ threads'[w].errors = threads[w].errors + 1
        /\ threads'[w].i = threads[w].i + 1
        /\ threads'[w].pc = IF threads[w].i < Len(threads[w].pdf_files) THEN "loop" ELSE "done"
        /\ UNCHANGED counterVars

\* C27: an exception raised while converting one file (reading it, process_pdf,
\* writing the output) is logged and does not stop the batch: the later files are
\* examined and the summary is shown.
C27_ErrorsDoNotStopBatch ==
    /\ []BatchRunsToItsEnd
    /\ [][\A w \in DOMAIN threads : RaiseGoesOn(w)]_vars

\* loose.pdf is no PDF and raised, b.PDF was converted after it, the summary is shown
C27_Witness ==
    /\ threads # <<>>
    /\ Undisturbed(1)
    /\ Holds(Listing[1], File(1, "junk"))
    /\ threads[1].errors = 1
    /\ Holds(Listing[5], File(Now, "dark"))
    /\ threads[1].logged = <<"summary", 2, 1, 0>>
    /\ threads[1].pc = "reset"

\* C28: at most one conversion worker exists at any time.
C28_OneWorker == Cardinality(Running) <= 1

\* the counters at the iteration boundaries of a worker running alone
CountersInLoop ==
    \A w \in DOMAIN threads :
        (~threads[w].overlapped /\ threads[w].pc \in {"loop", "done"}) =>
            /\ processed_files = converted_count + skipped_count
            /\ processed_files <= total_files
            /\ total_files = Len(threads[w].pdf_files)
            /\ threads[w].logged[1] # "Conversion cancelled by user." =>
                  processed_files + threads[w].errors = threads[w].i - 1

\* the summary of a worker running alone: <<"summary", total, converted, skipped>>
SummaryAddsUp ==
    \A w \in DOMAIN threads :
        (~threads[w].overlapped /\ threads[w].logged # <<>>
            /\ threads[w].logged[1] = "summary") =>
            threads[w].logged[3] + threads[w].logged[4] = threads[w].logged[2]

\* C29: for a single worker, at every iteration boundary processed_files =
\* converted_count + skipped_count <= total_files, a file that raised is counted
\* in neither, and the converted and skipped counts of the summary add up to the
\* total it reports.
C29_CountersAddUp == CountersInLoop /\ SummaryAddsUp

\* C30: a file that a run skips as up to date has an output that a conversion
\* saved, not one that a failed conversion of an earlier run left behind.
C30_FailedNotSkipped ==
    [][\A w \in DOMAIN threads :
          (Examines(w) /\ ~threads[w].overlapped /\ threads'[w].logged[1] = "skip") =>
              files[Pair(w)[2]].data = "dark"]_vars

\* a failed conversion leaves the disk as it was when it raised before the write
FailureBeforeWriteLeavesDisk ==
    [][\A w \in DOMAIN threads :
          (Examines(w) /\ threads'[w].logged[1] = "ERROR") => files' = files]_vars

====
